---- MODULE Spec2Model ----
(***************************************************************************)
(* WAL replay of one shard (analytic_engine/src/instance/wal_replayer.rs): *)
(* the table based and the region based strategy, the shared               *)
(* replay_table_log_entries, and the splitter of region batches.           *)
(***************************************************************************)
EXTENDS Integers, Sequences, FiniteSets, TLC

\* ------------------------------------------------------------------ bounds
NumTables == 2
MaxWalLen == 3
MaxFlushed == 1
MaxBatch == 3
MaxRuns == 2
MaxLive == 1
MaxFutures == 22
NumNodes == 3
NumShards == 2
NumCallers == 2
MaxVersion == 2
MaxNodeLists == 2
NumOpeners == 2
MaxTableSets == 2
MaxStarts == 3
MaxStrLen == 2
MaxTtlSlack == 2
MaxCompacts == 2
MaxLeaseMs == 4
MaxSplitLen == 5

\* ------------------------------------------------------- program constants
\* buffer_unordered(20)
FanOut == 20
\* table_data.schema_version() of every table of the shard
TableSchemaVersion == 1
\* u64::MAX, the invalid flag of split_log_batch_by_table, as the largest
\* integer of the model checker: no table of the model has this id
InvalidTableId == 2147483647

\* const MIN_SHARD_LOCK_LEASE_TTL_SEC: u64 = 15
MIN_SHARD_LOCK_LEASE_TTL_SEC == 15

Tables == 1..NumTables
NoTable == 0
\* The id of a table that was moved to another shard or dropped: its
\* entries are in the shard's log, the table is not given to run.
ForeignTable == NumTables + 1
\* The nodes that run a shard lock manager, and the shards of the cluster.
Nodes == 1..NumNodes
ShardIds == 1..NumShards
NoNode == 0
\* Concurrent callers of the controller's async methods.
Callers == 1..NumCallers
\* topology.nodes() is None
NoNodeList == 0
\* open_shard calls that can be in flight together.
Openers == 1..NumOpeners
\* The heartbeat tasks start() spawns, in the order of the calls.
Tasks == 1..MaxStarts
NoTask == 0

VARIABLES
    mode,               \* ReplayMode of the WalReplayer
    batch_size,         \* context.wal_replay_batch_size
    wal,                \* the shard's log, in physical order
    last_sequence,      \* table_data.last_sequence()
    flushed_sequence,   \* table_data.current_version().flushed_sequence()
    memtable,           \* rows inserted and not yet flushed, in insert order
    in_flush,           \* serial_exec.flush_scheduler().is_in_flush()
    frozen,             \* how many rows of memtable the scheduled flush took
    sst,                \* rows a finished flush made durable
    serial_exec,        \* holder of table_data.serial_exec
    run_state,          \* "idle", "running", "ok" (Ok(failed_tables)), or the
                        \* Err of run: "ErrScan", "ErrPull"
    failed_tables,      \* FailedTables: the error of a table, or "none"
    task_pc,            \* position of the per-table future
    read_start,         \* ReadBoundary::Excluded(..) of the table's ReadRequest
    cursor,             \* position of a log iterator in wal (0: region scan)
    buf,                \* entries (wal indices) the table's apply still holds
    fs_snap,            \* flushed_sequence read at replay_table_log_entries:510
    rb_pc,              \* position of replay_region_logs
    lock_idx,           \* next table of the "lock all related tables" loop
    log_entry_buf,      \* the region batch (wal indices)
    table_batches,      \* output of split_log_batch_by_table
    ctx_mutex,          \* holder of the Mutex around serial_exec_ctxs
    start_flushed,      \* flushed_sequence when the run started
    start_last,         \* last_sequence when the run started
    start_mem,          \* memtable when the run started
    prev_ok,            \* the run before this one returned an empty map
    runs,               \* calls of replay() so far
    replayed,           \* sequences the loop of replay_table_log_entries met
    live,               \* live writes done
    futures,            \* length of the stream given to buffer_unordered
    taken,              \* futures buffer_unordered has taken from the stream
    completed,          \* futures that have yielded their result
    schema_version,     \* table_data.schema_version()
    round,              \* what the last round of the loop of
                        \* replay_table_log_entries did for the table
    lease,              \* the lease of a node for a shard's lock key
    kv_key,             \* coordinator KV store: the node whose lease the
                        \* lock key of a shard is bound to, or NoNode
    topology,           \* Inner::topology: the cached version and node list
    fn_pc,              \* position of a caller in fetch_nodes
    fetched,            \* the GetNodes response a caller holds
    fn_ret,             \* what the caller's last fetch_nodes returned
    fn_last,            \* the version of the caller's last Ok return
    shard_set,          \* Inner::shard_set: shard id -> shard
    os_pc,              \* position of an open_shard call
    os_req,             \* the shard_info the call was given
    os_resp,            \* the GetTablesOfShards response the call received
    os_ret,             \* what the opener's last open_shard returned
    cs_ret,             \* what the last close_shard returned
    hb_pc,              \* position of a heartbeat task in its loop
    hb_wait,            \* the Duration `wait` of the task, in nanoseconds
    hb_resp,            \* what the task's last send_heartbeat returned
    hb_sent,            \* the shard_infos of the task's last send_heartbeat
    meta_client_lease,  \* config.meta_client.lease, a Duration in nanoseconds
    hb_chan,            \* signals buffered in the task's mpsc::channel(1)
    tx_live,            \* a Sender of the task's channel exists
    detached,           \* tasks whose JoinHandle was dropped unawaited
    stop_heartbeat_tx,  \* ClusterImpl::stop_heartbeat_tx (NoTask: None)
    heartbeat_handle,   \* ClusterImpl::heartbeat_handle (NoTask: None)
    nstarted,           \* calls of start() so far
    stop_pc,            \* position of the stop() call in progress
    stop_tx,            \* the Sender stop() took
    stop_handle,        \* the JoinHandle stop() took
    stop_log,           \* whether the last stop() sent a signal, awaited a task
    stopped,            \* stop() has returned and start() was not called since
    root_path,          \* config.etcd_client.root_path, a string of characters
    cluster_name,       \* config.meta_client.cluster_name
    key_prefix,         \* what shard_lock_key_prefix returned
    lease_ttl_sec,      \* config.etcd_client.shard_lock_lease_ttl_sec
    check_interval,     \* config.etcd_client.shard_lock_lease_check_interval,
                        \* in milliseconds
    cluster_type,       \* config.cluster_type
    tn_pc,              \* position of ClusterImpl::try_new, or what it returned
    connects,           \* calls of etcd_client::Client::connect
    compact_ret,        \* what the last compact returned
    compact_calls,      \* calls of compact so far
    node_lookups        \* calls of Inner::get_compaction_node

replayVars == << mode, batch_size, wal, last_sequence, flushed_sequence, memtable,
           in_flush, frozen, sst, serial_exec, run_state, failed_tables,
           task_pc, read_start, cursor, buf, fs_snap, rb_pc, lock_idx,
           log_entry_buf, table_batches, ctx_mutex, start_flushed,
           start_last, start_mem, prev_ok, runs, replayed, live, futures,
           taken, completed, schema_version, round >>
lockVars == << lease, kv_key >>
topoVars == << topology, fn_pc, fetched, fn_ret, fn_last >>
shardVars == << shard_set, os_pc, os_req, os_resp, os_ret, cs_ret >>
hbVars == << hb_pc, hb_wait, hb_resp, hb_sent, meta_client_lease, hb_chan, tx_live, detached, stop_heartbeat_tx,
            heartbeat_handle, nstarted, stop_pc, stop_tx, stop_handle,
            stop_log, stopped >>
keyVars == << root_path, cluster_name, key_prefix >>
newVars == << lease_ttl_sec, check_interval, cluster_type, tn_pc, connects >>
compactVars == << compact_ret, compact_calls, node_lookups >>
clusterVars == << lockVars, topoVars, shardVars, hbVars, keyVars, newVars,
                 compactVars >>
otherThanLock == << replayVars, topoVars, shardVars, hbVars, keyVars, newVars,
                   compactVars >>
otherThanTopo == << replayVars, lockVars, shardVars, hbVars, keyVars, newVars,
                   compactVars >>
otherThanShards == << replayVars, lockVars, topoVars, hbVars, keyVars, newVars,
                     compactVars >>
otherThanHb == << replayVars, lockVars, topoVars, shardVars, keyVars, newVars,
                 compactVars >>
otherThanKey == << replayVars, lockVars, topoVars, shardVars, hbVars, newVars,
                  compactVars >>
otherThanNew == << replayVars, lockVars, topoVars, shardVars, hbVars, keyVars,
                  compactVars >>
otherThanCompact == << replayVars, lockVars, topoVars, shardVars, hbVars,
                      keyVars, newVars >>
vars == << replayVars, clusterVars >>

tableVars == << last_sequence, flushed_sequence, memtable, in_flush, frozen, sst,
               schema_version, round >>
regionVars == << rb_pc, lock_idx, log_entry_buf, table_batches, ctx_mutex >>
fanVars == << futures, taken, completed >>
configVars == << mode, batch_size, wal, live, fanVars >>
startVars == << start_flushed, start_last, start_mem, prev_ok, runs >>

\* ----------------------------------------------------------------- helpers
Max(S) == CHOOSE x \in S : \A y \in S : y <= x
Min(S) == CHOOSE x \in S : \A y \in S : x <= y
Range(s) == { s[i] : i \in 1..Len(s) }

RECURSIVE FirstN(_, _)
FirstN(S, n) ==
    IF n = 0 \/ S = {} THEN << >>
    ELSE << Min(S) >> \o FirstN(S \ { Min(S) }, n - 1)

\* ------------------------------------------------------------ log entries
\* ReadPayload: Write { row_group }, AlterSchema, AlterOptions. A row group
\* carries its schema version; key_too_large says whether the memtable
\* rejects its key.
WritePayload(version, key_too_large) ==
    [kind |-> "Write", version |-> version, key_too_large |-> key_too_large]
DdlPayload(kind) ==
    [kind |-> kind, version |-> TableSchemaVersion, key_too_large |-> FALSE]

PlainWrite == WritePayload(TableSchemaVersion, FALSE)
WritePayloads ==
    { PlainWrite,
      WritePayload(TableSchemaVersion - 1, FALSE),
      WritePayload(TableSchemaVersion, TRUE) }
\* The payloads of the logs of Spec: the three writes and a DDL record.
Payloads == WritePayloads \cup { DdlPayload("AlterSchema") }
\* Every variant of ReadPayload.
ReadPayloads == Payloads \cup { DdlPayload("AlterOptions") }

\* Logs whose sequences are strictly increasing per table: an entry's
\* sequence is its position in the shard's log.
WalsOf(ids, payloads) ==
    UNION { { w \in [1..n -> [table_id : ids, sequence : 1..n, payload : payloads]] :
                \A i \in 1..n : w[i].sequence = i }
            : n \in 0..MaxWalLen }

\* The logs that hold entries of the tables of the run only.
Wals(payloads) == WalsOf(Tables, payloads)

\* ------------------------------------------------------------- WAL reader
\* next_log_entries: up to n entries after the iterator's position among
\* the positions `matching`.
NextLogEntries(matching, pos, n) == FirstN({ i \in matching : i > pos }, n)

\* Read(location, Excluded(start), Max): the entries of one table.
TableLog(t, start) ==
    { i \in 1..Len(wal) : wal[i].table_id = t /\ wal[i].sequence > start }

RegionLogUnfiltered == 1..Len(wal)

\* Scan(region) filtered by log_filter: the entries of the tables of the run.
RegionLog == { i \in 1..Len(wal) : wal[i].table_id \in Tables }

NewCursor(batch) == IF batch = << >> THEN Len(wal) ELSE batch[Len(batch)]

\* ------------------------------------------------- memtable and flusher
\* MemTableWriter::write: the row group is inserted, or the insert fails
\* with KeyTooLarge, or with another error.
MemTableWrite(e, werr) ==
    IF e.payload.key_too_large THEN "KeyTooLarge"
    ELSE IF werr THEN "Err" ELSE "ok"

\* table_data.should_flush_table(in_flush): decided by the memory usage of
\* the table, an input here.
ShouldFlushTable(t, is_in_flush, pressure) == pressure

\* Flusher::schedule_flush: queues the flush of the rows the memtable holds;
\* a request that finds a flush in flight joins it.
ScheduleFlush(st) ==
    IF st.in_flush THEN st
    ELSE [st EXCEPT !.in_flush = TRUE, !.frozen = Len(st.mem)]

\* ----------------------------------------------- replay_table_log_entries
\* A round that reached neither the insert nor the flush predicate.
NoRound ==
    [wres |-> "none", in_flush |-> FALSE, should |-> FALSE, called |-> FALSE,
     sched |-> "none"]

TableState(t) ==
    [status |-> "ok", last |-> last_sequence[t], mem |-> memtable[t],
     in_flush |-> in_flush[t], frozen |-> frozen[t],
     schema |-> schema_version[t], round |-> NoRound]

AppliedPayloadAny(payload) == TRUE

\* match payload: the Write arm; the other arm is AlterSchema | AlterOptions
AppliedPayload(payload) == payload.kind = "Write"

SchemaMismatchNever(st, e) == FALSE

\* table_schema_version != row_group.schema().version()
SchemaMismatch(st, e) == st.schema # e.payload.version

IgnoredWriteErrorNone(wres) == FALSE
IgnoredWriteErrorAny(wres) == TRUE

\* matches!(e, UpdateMemTableSequence { source } if source.kind() == KeyTooLarge)
IgnoredWriteError(wres) == wres = "KeyTooLarge"

\* One round of the loop over log_entries: the entry e of table t, with the
\* flushed_sequence fs read when the call began. env holds what the
\* collaborators answer: werr (the insert fails), pressure (the table wants
\* a flush), ferr (scheduling the flush fails). status is "ok", or the
\* ReplayWalWithCause the call returns.
FlushAlways(t, st1, e, env) ==
    LET st2 == [st1 EXCEPT !.round.in_flush = st1.in_flush,
                           !.round.called = TRUE,
                           !.round.sched = IF env.ferr THEN "Err" ELSE "ok"]
    IN  IF env.ferr THEN [st2 EXCEPT !.status = "Flush"]
        ELSE [ScheduleFlush(st2) EXCEPT !.last = e.sequence]

\* "Flush the table if necessary", then set_last_sequence: the round after
\* the insert. in_flush is read and given to should_flush_table; when that
\* is true schedule_flush is called, and its error ends the round.
FlushIfNecessary(t, st1, e, env) ==
    LET is_in_flush == st1.in_flush
        should == ShouldFlushTable(t, is_in_flush, env.pressure)
        st2 == [st1 EXCEPT !.round.in_flush = is_in_flush,
                           !.round.should = should,
                           !.round.called = should,
                           !.round.sched =
                               IF ~should THEN "none"
                               ELSE IF env.ferr THEN "Err" ELSE "ok"]
    IN  IF should
        THEN IF env.ferr THEN [st2 EXCEPT !.status = "Flush"]
             ELSE [ScheduleFlush(st2) EXCEPT !.last = e.sequence]
        ELSE [st2 EXCEPT !.last = e.sequence]

ApplyPayload(t, e, env) ==
    LET st == TableState(t) IN
    IF AppliedPayload(e.payload) THEN
        IF SchemaMismatch(st, e) THEN st
        ELSE
            LET wres == MemTableWrite(e, env.werr)
                st1 == IF wres = "ok"
                       THEN [st EXCEPT !.mem = Append(st.mem, e.sequence),
                                       !.round.wres = wres]
                       ELSE [st EXCEPT !.round.wres = wres]
            IN  IF wres # "ok" /\ ~IgnoredWriteError(wres)
                THEN [st1 EXCEPT !.status = "Write"]
                ELSE FlushIfNecessary(t, st1, e, env)
    ELSE [st EXCEPT !.last = e.sequence]

ReplayEntryNoSkip(t, e, fs, env) == ApplyPayload(t, e, env)

ReplayEntry(t, e, fs, env) ==
    IF e.sequence <= fs THEN TableState(t) ELSE ApplyPayload(t, e, env)

Envs == [werr : BOOLEAN, pressure : BOOLEAN, ferr : BOOLEAN]

\* The round is at `.await` of schedule_flush, which returns Ok.
AwaitsFlush(st) == st.status = "ok" /\ st.round.sched = "ok"

\* The table as the round leaves it when it reaches that await:
\* set_last_sequence comes after it.
BeforeSetLast(t, st) ==
    IF AwaitsFlush(st) THEN [st EXCEPT !.last = last_sequence[t]] ELSE st

\* The table's fields after one round.
StoreTable(t, st) ==
    /\ last_sequence' = [last_sequence EXCEPT ![t] = st.last]
    /\ memtable' = [memtable EXCEPT ![t] = st.mem]
    /\ in_flush' = [in_flush EXCEPT ![t] = st.in_flush]
    /\ frozen' = [frozen EXCEPT ![t] = st.frozen]
    /\ schema_version' = [schema_version EXCEPT ![t] = st.schema]
    /\ round' = [round EXCEPT ![t] = st.round]
    /\ UNCHANGED << flushed_sequence, sst >>

\* The background flush of table t finishes: the frozen rows become durable,
\* and flushed_sequence is the highest sequence among them.
FlushDone(t) ==
    /\ in_flush[t]
    /\ LET rows == SubSeq(memtable[t], 1, frozen[t]) IN
        /\ flushed_sequence' =
              [flushed_sequence EXCEPT ![t] = Max(Range(rows) \cup { @ })]
        /\ sst' = [sst EXCEPT ![t] = @ \cup Range(rows)]
        /\ memtable' =
              [memtable EXCEPT ![t] = SubSeq(@, frozen[t] + 1, Len(@))]
    /\ in_flush' = [in_flush EXCEPT ![t] = FALSE]
    /\ frozen' = [frozen EXCEPT ![t] = 0]
    /\ UNCHANGED << last_sequence, serial_exec, run_state, failed_tables,
                    task_pc, read_start, cursor, buf, fs_snap, replayed,
                    schema_version, round >>
    /\ UNCHANGED clusterVars
    /\ UNCHANGED << configVars, regionVars, startVars >>

\* ------------------------------------------------------------------- Init
\* The state when WalReplayer::new returns, for a log among `logs`: every
\* table is as the manifest left it, flushed up to a position of the log,
\* with nothing in memory.
InitOn(logs) ==
    /\ mode \in { "TableBased", "RegionBased" }
    /\ batch_size \in 1..MaxBatch
    /\ wal \in logs
    /\ \E f \in 0..MaxFlushed : flushed_sequence = [t \in Tables |-> f]
    /\ last_sequence = flushed_sequence
    /\ memtable = [t \in Tables |-> << >>]
    /\ in_flush = [t \in Tables |-> FALSE]
    /\ frozen = [t \in Tables |-> 0]
    /\ sst = [t \in Tables |-> {}]
    /\ serial_exec = [t \in Tables |-> "free"]
    /\ run_state = "idle"
    /\ failed_tables = [t \in Tables |-> "none"]
    /\ task_pc = [t \in Tables |-> "idle"]
    /\ read_start = [t \in Tables |-> 0]
    /\ cursor = [t \in Tables \cup { NoTable } |-> 0]
    /\ buf = [t \in Tables |-> << >>]
    /\ fs_snap = [t \in Tables |-> 0]
    /\ rb_pc = "idle"
    /\ lock_idx = 1
    /\ log_entry_buf = << >>
    /\ table_batches = {}
    /\ ctx_mutex = NoTable
    /\ start_flushed = flushed_sequence
    /\ start_last = last_sequence
    /\ start_mem = memtable
    /\ prev_ok = FALSE
    /\ runs = 0
    /\ replayed = [t \in Tables |-> << >>]
    /\ live = 0
    /\ schema_version = [t \in Tables |-> TableSchemaVersion]
    /\ round = [t \in Tables |-> NoRound]

\* ShardLockManager::new: no lease is held, the store has no lock key.
LockInit ==
    /\ lease = [n \in Nodes |-> [s \in ShardIds |-> "none"]]
    /\ kv_key = [s \in ShardIds |-> NoNode]

\* Inner::new: topology is ClusterTopology::default(), nobody has called.
TopoInit ==
    /\ topology = [version |-> 0, nodes |-> NoNodeList]
    /\ fn_pc = [c \in Callers |-> "idle"]
    /\ fetched = [c \in Callers |-> [version |-> 0, nodes |-> NoNodeList]]
    /\ fn_ret = [c \in Callers |->
                  [status |-> "none", version |-> 0, nodes |-> NoNodeList]]
    /\ fn_last = [c \in Callers |-> 0]

\* A shard as the set holds it: the version of its shard_info and the
\* tables the coordinator listed for it.
Shards == [version : 1..MaxVersion, tables : 1..MaxTableSets]
EmptyShardSet == [x \in {} |-> 0]
NoShard == [version |-> 0, tables |-> 0]
NoResponse == [ok |-> FALSE, tables_by_shard |-> EmptyShardSet]

\* The shard set given to try_new is empty, no call has been made.
ShardInit ==
    /\ shard_set = EmptyShardSet
    /\ os_pc = [o \in Openers |-> "idle"]
    /\ os_req = [o \in Openers |-> [id |-> 0, version |-> 0]]
    /\ os_resp = [o \in Openers |-> NoResponse]
    /\ os_ret = [o \in Openers |-> [status |-> "none", shard |-> NoShard]]
    /\ cs_ret = [id |-> 0, status |-> "none", shard |-> NoShard]

\* Duration::from_millis(ms)
FromMillis(ms) == ms * 1000000

\* ReadableDuration::as_millis: the whole milliseconds of the duration.
AsMillis(d) == d \div 1000000

\* heartbeat_handle: Mutex::new(None), stop_heartbeat_tx: Mutex::new(None)
HbInitOn(l) ==
    /\ meta_client_lease = l
    /\ hb_pc = [t \in Tasks |-> "unborn"]
    /\ hb_wait = [t \in Tasks |-> 0]
    /\ hb_resp = [t \in Tasks |-> "none"]
    /\ hb_sent = [t \in Tasks |-> {}]
    /\ hb_chan = [t \in Tasks |-> 0]
    /\ tx_live = [t \in Tasks |-> FALSE]
    /\ detached = {}
    /\ stop_heartbeat_tx = NoTask
    /\ heartbeat_handle = NoTask
    /\ nstarted = 0
    /\ stop_pc = "idle"
    /\ stop_tx = NoTask
    /\ stop_handle = NoTask
    /\ stop_log = [sent |-> FALSE, awaited |-> FALSE]
    /\ stopped = FALSE

HbInit == HbInitOn(FromMillis(MaxLeaseMs))

\* Strings are sequences of characters.
Horaedb == << "/", "h", "o", "r", "a", "e", "d", "b" >>
DefaultCluster ==
    << "d", "e", "f", "a", "u", "l", "t", "C", "l", "u", "s", "t", "e", "r" >>
DefaultConfigs == { << Horaedb, DefaultCluster >> }

\* The configuration carries one of the (root_path, cluster_name) pairs of
\* `configs`; shard_lock_key_prefix has not been called.
KeyInit(configs) ==
    /\ \E config \in configs :
          root_path = config[1] /\ cluster_name = config[2]
    /\ key_prefix = [status |-> "none", value |-> << >>]

\* The configuration given to try_new has a lease TTL among ttls, a check
\* interval among intervals and a cluster type among types; try_new is at
\* position pc and has made `made` connections.
NewInit(ttls, intervals, types, pc, made) ==
    /\ lease_ttl_sec \in ttls
    /\ check_interval \in intervals
    /\ cluster_type \in types
    /\ tn_pc = pc
    /\ connects = made

\* EtcdClientConfig::default(): a TTL of 30 s, checked every 200 ms.
DefaultNewInit == NewInit({ 30 }, { 200 }, { "HoraeDB" }, "ok", 1)

\* compact has not been called.
CompactInit ==
    /\ compact_ret = "none"
    /\ compact_calls = 0
    /\ node_lookups = 0

\* ClusterImpl::try_new has returned and nothing has been called yet.
ControllerInit == LockInit /\ TopoInit /\ ShardInit /\ HbInit /\ CompactInit
ClusterInit == ControllerInit /\ KeyInit(DefaultConfigs) /\ DefaultNewInit

Init ==
    /\ InitOn(Wals(Payloads))
    /\ futures = 0 /\ taken = 0 /\ completed = 0
    /\ ClusterInit

\* ------------------------------------------------------- WalReplayer::replay
\* replay() calls run() of the strategy; failed_tables starts empty.
StartRun ==
    /\ run_state' = "running"
    /\ failed_tables' = [t \in Tables |-> "none"]
    /\ task_pc' = [t \in Tables |->
                     IF mode = "TableBased" THEN "pending" ELSE "idle"]
    /\ rb_pc' = IF mode = "RegionBased" THEN "scan" ELSE "idle"
    /\ start_flushed' = flushed_sequence
    /\ start_last' = last_sequence
    /\ start_mem' = memtable
    /\ prev_ok' = (run_state = "ok" /\ \A t \in Tables : failed_tables[t] = "none")
    /\ runs' = runs + 1
    /\ replayed' = [t \in Tables |-> << >>]
    /\ UNCHANGED clusterVars
    /\ UNCHANGED << tableVars, configVars, serial_exec, read_start, cursor,
                    buf, fs_snap, lock_idx, log_entry_buf, table_batches,
                    ctx_mutex >>

Replay == run_state = "idle" /\ StartRun

\* replay() is called again on the same tables after it has returned.
ReplayAgain ==
    /\ run_state \in { "ok", "ErrScan", "ErrPull" }
    /\ runs < MaxRuns
    /\ StartRun

\* ------------------------------------------------------ buffer_unordered
InFlightTasks ==
    { t \in Tables : task_pc[t] \in { "lock", "pull", "wait", "apply", "scheduled" } }

CanStartOneMore(in_progress) == in_progress <= FanOut

\* buffer_unordered(20) takes the next future of the stream while fewer than
\* 20 are in progress.
CanStart(in_progress) == in_progress < FanOut

\* ------------------------------------------------------ TableBasedReplay
EndTableTaskErrorDropped(t, err) ==
    /\ task_pc' = [task_pc EXCEPT ![t] = "done"]
    /\ serial_exec' = [serial_exec EXCEPT ![t] = "free"]
    /\ UNCHANGED failed_tables
    /\ buf' = [buf EXCEPT ![t] = << >>]

EndTableTaskHoldsExecutor(t, err) ==
    /\ task_pc' = [task_pc EXCEPT ![t] = "done"]
    /\ UNCHANGED serial_exec
    /\ failed_tables' = IF err = "none" THEN failed_tables
                        ELSE [failed_tables EXCEPT ![t] = err]
    /\ buf' = [buf EXCEPT ![t] = << >>]

\* The future of table t ends: its guard on serial_exec is dropped, and the
\* loop of run() stores an error in failed_tables.
EndTableTask(t, err) ==
    /\ task_pc' = [task_pc EXCEPT ![t] = "done"]
    /\ serial_exec' = [serial_exec EXCEPT ![t] = "free"]
    /\ failed_tables' = IF err = "none" THEN failed_tables
                        ELSE [failed_tables EXCEPT ![t] = err]
    /\ buf' = [buf EXCEPT ![t] = << >>]

TB_StartLockFirst(t) ==
    /\ run_state = "running" /\ mode = "TableBased"
    /\ task_pc[t] = "pending"
    /\ \A u \in Tables : task_pc[u] = "pending" => t <= u
    /\ CanStart(Cardinality(InFlightTasks))
    /\ serial_exec[t] = "free"
    /\ read_start' = [read_start EXCEPT ![t] = flushed_sequence[t]]
    /\ cursor' = [cursor EXCEPT ![t] = 0]
    /\ \E fail \in BOOLEAN :
         IF fail
         THEN /\ task_pc' = [task_pc EXCEPT ![t] = "done"]
              /\ failed_tables' = [failed_tables EXCEPT ![t] = "OpenRead"]
              /\ UNCHANGED serial_exec
         ELSE /\ task_pc' = [task_pc EXCEPT ![t] = "lock"]
              /\ serial_exec' = [serial_exec EXCEPT ![t] = "replay"]
              /\ UNCHANGED failed_tables
    /\ UNCHANGED clusterVars
    /\ UNCHANGED << tableVars, configVars, regionVars, startVars,
                    run_state, buf, fs_snap, replayed >>

\* recover_table_logs up to read_batch: the ReadRequest starts after the
\* flushed sequence; read_batch may fail.
TB_Start(t) ==
    /\ run_state = "running" /\ mode = "TableBased"
    /\ task_pc[t] = "pending"
    /\ \A u \in Tables : task_pc[u] = "pending" => t <= u
    /\ CanStart(Cardinality(InFlightTasks))
    /\ read_start' = [read_start EXCEPT ![t] = flushed_sequence[t]]
    /\ cursor' = [cursor EXCEPT ![t] = 0]
    /\ \E fail \in BOOLEAN :
         IF fail
         THEN /\ task_pc' = [task_pc EXCEPT ![t] = "done"]
              /\ failed_tables' = [failed_tables EXCEPT ![t] = "OpenRead"]
         ELSE /\ task_pc' = [task_pc EXCEPT ![t] = "lock"]
              /\ UNCHANGED failed_tables
    /\ UNCHANGED clusterVars
    /\ UNCHANGED << tableVars, configVars, regionVars, startVars, serial_exec,
                    run_state, buf, fs_snap, replayed >>

TB_LockNotTaken(t) ==
    /\ run_state = "running" /\ mode = "TableBased"
    /\ task_pc[t] = "lock"
    /\ task_pc' = [task_pc EXCEPT ![t] = "pull"]
    /\ UNCHANGED clusterVars
    /\ UNCHANGED << tableVars, configVars, regionVars, startVars, run_state,
                    serial_exec, failed_tables, read_start, cursor, buf,
                    fs_snap, replayed >>

\* table_data.serial_exec.lock().await
TB_Lock(t) ==
    /\ run_state = "running" /\ mode = "TableBased"
    /\ task_pc[t] = "lock"
    /\ serial_exec[t] = "free"
    /\ serial_exec' = [serial_exec EXCEPT ![t] = "replay"]
    /\ task_pc' = [task_pc EXCEPT ![t] = "pull"]
    /\ UNCHANGED clusterVars
    /\ UNCHANGED << tableVars, configVars, regionVars, startVars, run_state,
                    failed_tables, read_start, cursor, buf, fs_snap, replayed >>

\* One pull of the loop: next_log_entries fails, or returns an empty buffer
\* (break), or a batch that replay_table_log_entries then takes.
TB_Pull(t) ==
    /\ run_state = "running" /\ mode = "TableBased"
    /\ task_pc[t] = "pull"
    /\ \E fail \in BOOLEAN :
         LET batch == NextLogEntries(TableLog(t, read_start[t]), cursor[t],
                                     batch_size)
         IN  IF fail
             THEN /\ EndTableTask(t, "Pull")
                  /\ UNCHANGED << cursor, fs_snap >>
             ELSE IF batch = << >>
             THEN /\ EndTableTask(t, "none")
                  /\ cursor' = [cursor EXCEPT ![t] = NewCursor(batch)]
                  /\ UNCHANGED fs_snap
             ELSE /\ buf' = [buf EXCEPT ![t] = batch]
                  /\ cursor' = [cursor EXCEPT ![t] = NewCursor(batch)]
                  /\ fs_snap' = [fs_snap EXCEPT ![t] = flushed_sequence[t]]
                  /\ task_pc' = [task_pc EXCEPT ![t] = "apply"]
                  /\ UNCHANGED << serial_exec, failed_tables >>
    /\ UNCHANGED clusterVars
    /\ UNCHANGED << tableVars, configVars, regionVars, startVars, run_state,
                    read_start, replayed >>

\* replay_table_log_entries on the next entry of the batch; an error ends
\* the future, the end of the batch leads to the next pull.
TB_Apply(t) ==
    /\ run_state = "running" /\ mode = "TableBased"
    /\ task_pc[t] = "apply"
    /\ \E env \in Envs :
         LET e == wal[Head(buf[t])]
             st == ReplayEntry(t, e, fs_snap[t], env)
         IN  /\ StoreTable(t, BeforeSetLast(t, st))
             /\ replayed' = [replayed EXCEPT ![t] = Append(@, e.sequence)]
             /\ IF st.status # "ok"
                THEN EndTableTask(t, st.status)
                ELSE IF AwaitsFlush(st)
                THEN /\ task_pc' = [task_pc EXCEPT ![t] = "scheduled"]
                     /\ UNCHANGED << buf, serial_exec, failed_tables >>
                ELSE /\ buf' = [buf EXCEPT ![t] = Tail(@)]
                     /\ task_pc' = [task_pc EXCEPT ![t] =
                           IF Len(buf[t]) = 1 THEN "pull" ELSE "apply"]
                     /\ UNCHANGED << serial_exec, failed_tables >>
    /\ UNCHANGED clusterVars
    /\ UNCHANGED << configVars, regionVars, startVars, run_state, read_start,
                    cursor, fs_snap >>

\* schedule_flush has returned Ok: set_last_sequence, and the loop goes on
\* with the next entry of the batch or the next pull.
TB_AfterFlush(t) ==
    /\ run_state = "running" /\ mode = "TableBased"
    /\ task_pc[t] = "scheduled"
    /\ last_sequence' = [last_sequence EXCEPT ![t] = wal[Head(buf[t])].sequence]
    /\ buf' = [buf EXCEPT ![t] = Tail(@)]
    /\ task_pc' = [task_pc EXCEPT ![t] =
          IF Len(buf[t]) = 1 THEN "pull" ELSE "apply"]
    /\ UNCHANGED clusterVars
    /\ UNCHANGED << flushed_sequence, memtable, in_flush, frozen, sst,
                    schema_version, round, configVars, regionVars, startVars,
                    serial_exec, run_state, failed_tables, read_start, cursor,
                    fs_snap, replayed >>

\* The stream of futures is exhausted: run returns Ok(failed_tables).
TB_Return ==
    /\ run_state = "running" /\ mode = "TableBased"
    /\ \A t \in Tables : task_pc[t] = "done"
    /\ run_state' = "ok"
    /\ UNCHANGED clusterVars
    /\ UNCHANGED << tableVars, configVars, regionVars, startVars, serial_exec,
                    failed_tables, task_pc, read_start, cursor, buf, fs_snap,
                    replayed >>

TableBasedNext ==
    \E t \in Tables :
        TB_Start(t) \/ TB_Lock(t) \/ TB_Pull(t) \/ TB_Apply(t) \/ TB_AfterFlush(t)

\* ----------------------------------------------------- RegionBasedReplay
PushRangeOverwrite(table_ranges, id, range) ==
    [x \in DOMAIN table_ranges \cup { id } |->
        IF x = id THEN << range >> ELSE table_ranges[x]]

\* table_ranges.entry(id).or_insert(Vec::new()).push(range)
PushRange(table_ranges, id, range) ==
    IF id \in DOMAIN table_ranges
    THEN [table_ranges EXCEPT ![id] = Append(@, range)]
    ELSE [x \in DOMAIN table_ranges \cup { id } |->
             IF x = id THEN << range >> ELSE table_ranges[x]]

\* The loop of split_log_batch_by_table over ids, the table ids of the
\* batch; log_batch.get(i) is ids[i + 1]. A range is start..end, end excluded.
RECURSIVE SplitLoop(_, _, _, _, _)
SplitLoop(ids, start_log_idx, curr_log_idx, start_table_id, table_ranges) ==
    LET time_to_break == curr_log_idx = Len(ids)
        found_end_idx ==
            IF time_to_break THEN TRUE
            ELSE ids[curr_log_idx + 1] # start_table_id
        ranges1 ==
            IF found_end_idx
            THEN PushRange(table_ranges, start_table_id,
                           [start |-> start_log_idx, end |-> curr_log_idx])
            ELSE table_ranges
        start1 == IF found_end_idx THEN curr_log_idx ELSE start_log_idx
        id1 == IF ~found_end_idx THEN start_table_id
               ELSE IF time_to_break THEN InvalidTableId
               ELSE ids[start1 + 1]
    IN  IF time_to_break THEN ranges1
        ELSE SplitLoop(ids, start1, curr_log_idx + 1, id1, ranges1)

EmptyRanges == [x \in {} |-> << >>]

SplitKeepsOld(ids, old_table_batches) ==
    IF ids = << >> THEN old_table_batches
    ELSE LET table_ranges == SplitLoop(ids, 0, 0, ids[1], EmptyRanges)
         IN  old_table_batches \cup
                { [table_id |-> id, ranges |-> table_ranges[id]]
                  : id \in DOMAIN table_ranges }

\* split_log_batch_by_table(log_batch, table_batches): the vector is cleared,
\* then holds one TableBatch per key of table_ranges, in the order of the
\* HashMap, which is no order: a set.
SplitLogBatchByTable(ids, old_table_batches) ==
    LET cleared == {} IN
    IF ids = << >> THEN cleared
    ELSE LET table_ranges == SplitLoop(ids, 0, 0, ids[1], EmptyRanges)
         IN  cleared \cup { [table_id |-> id, ranges |-> table_ranges[id]]
                            : id \in DOMAIN table_ranges }

BatchTableIds(batch) == [i \in 1..Len(batch) |-> wal[batch[i]].table_id]

FlatMapFirstRange(batch, ranges) ==
    SubSeq(batch, Head(ranges).start + 1, Head(ranges).end)

FlatMapLastRangeFirst(batch, ranges) ==
    SubSeq(batch, ranges[Len(ranges)].start + 1, ranges[Len(ranges)].end)
    \o FlatMapFirstRange(batch, ranges)

\* ranges.iter().flat_map(|range| log_batch.range(range))
RECURSIVE FlatMapRanges(_, _)
FlatMapRanges(batch, ranges) ==
    IF ranges = << >> THEN << >>
    ELSE SubSeq(batch, Head(ranges).start + 1, Head(ranges).end)
         \o FlatMapRanges(batch, Tail(ranges))

KeepSerialExecCtxs == UNCHANGED serial_exec

\* replay_region_logs returns: serial_exec_ctxs is dropped and with it the
\* guards of all tables.
DropSerialExecCtxs ==
    serial_exec' = [t \in Tables |->
                      IF serial_exec[t] = "replay" THEN "free" ELSE serial_exec[t]]

\* wal_manager.scan(..): a failure is the error of run.
RB_Scan ==
    /\ run_state = "running" /\ rb_pc = "scan"
    /\ \E fail \in BOOLEAN :
         IF fail
         THEN /\ run_state' = "ErrScan" /\ rb_pc' = "done"
              /\ UNCHANGED << cursor, lock_idx >>
         ELSE /\ rb_pc' = "lock" /\ lock_idx' = 1
              /\ cursor' = [cursor EXCEPT ![NoTable] = 0]
              /\ UNCHANGED run_state
    /\ UNCHANGED clusterVars
    /\ UNCHANGED << tableVars, configVars, startVars, serial_exec,
                    failed_tables, task_pc, read_start, buf, fs_snap,
                    log_entry_buf, table_batches, ctx_mutex, replayed >>

\* "Lock all related tables": one table_data.serial_exec.lock().await of
\* the loop over table_datas.
RB_Lock ==
    /\ run_state = "running" /\ rb_pc = "lock"
    /\ serial_exec[lock_idx] = "free"
    /\ serial_exec' = [serial_exec EXCEPT ![lock_idx] = "replay"]
    /\ lock_idx' = lock_idx + 1
    /\ rb_pc' = IF lock_idx = NumTables THEN "pull" ELSE "lock"
    /\ UNCHANGED clusterVars
    /\ UNCHANGED << tableVars, configVars, startVars, run_state,
                    failed_tables, task_pc, read_start, cursor, buf, fs_snap,
                    log_entry_buf, table_batches, ctx_mutex, replayed >>

TasksOfNoneAfterFailure(batches) ==
    IF \A t \in Tables : failed_tables[t] = "none"
    THEN { tb.table_id : tb \in batches } ELSE {}

TasksOfAll(batches) == { tb.table_id : tb \in batches } \cap Tables

\* The tables of table_batches whose future in replay_single_batch replays:
\* a table in failed_tables gets no future, and the future of a table id
\* without a serial_exec_ctx returns None at once.
TasksOf(batches) ==
    { tb.table_id : tb \in { b \in batches :
          b.table_id \in Tables /\ failed_tables[b.table_id] = "none" } }

\* One round of the loop of replay_region_logs: the pull fails (the error of
\* run), or is empty (break, Ok), or gives a batch that replay_single_batch
\* splits into one future per table that has not failed.
RB_Pull ==
    /\ run_state = "running" /\ rb_pc = "pull"
    /\ \E fail \in BOOLEAN :
         LET batch == NextLogEntries(RegionLog, cursor[NoTable], batch_size)
             batches == SplitLogBatchByTable(BatchTableIds(batch), {})
             ranges(t) == (CHOOSE b \in batches : b.table_id = t).ranges
         IN  IF fail \/ batch = << >>
             THEN /\ run_state' = IF fail THEN "ErrPull" ELSE "ok"
                  /\ rb_pc' = "done"
                  /\ DropSerialExecCtxs
                  /\ cursor' = IF fail THEN cursor
                               ELSE [cursor EXCEPT ![NoTable] = NewCursor(batch)]
                  /\ UNCHANGED << log_entry_buf, table_batches, task_pc, buf >>
             ELSE /\ log_entry_buf' = batch
                  /\ cursor' = [cursor EXCEPT ![NoTable] = NewCursor(batch)]
                  /\ table_batches' = batches
                  /\ task_pc' = [t \in Tables |->
                        IF t \in TasksOf(batches) THEN "pending" ELSE "idle"]
                  /\ buf' = [t \in Tables |->
                        IF t \in TasksOf(batches)
                        THEN FlatMapRanges(batch, ranges(t)) ELSE << >>]
                  /\ rb_pc' = "tasks"
                  /\ UNCHANGED << run_state, serial_exec >>
    /\ UNCHANGED clusterVars
    /\ UNCHANGED << tableVars, configVars, startVars, failed_tables,
                    read_start, fs_snap, lock_idx, ctx_mutex, replayed >>

\* buffer_unordered takes the future of table t and polls it: it asks for
\* the Mutex of serial_exec_ctxs.
RT_Start(t) ==
    /\ run_state = "running" /\ rb_pc = "tasks"
    /\ task_pc[t] = "pending"
    /\ CanStart(Cardinality(InFlightTasks))
    /\ task_pc' = [task_pc EXCEPT ![t] = "wait"]
    /\ UNCHANGED clusterVars
    /\ UNCHANGED << tableVars, configVars, regionVars, startVars, serial_exec,
                    run_state, failed_tables, read_start, cursor, buf,
                    fs_snap, replayed >>

RT_LockNotExclusive(t) ==
    /\ run_state = "running" /\ rb_pc = "tasks"
    /\ task_pc[t] = "wait"
    /\ ctx_mutex' = t
    /\ task_pc' = [task_pc EXCEPT ![t] = "apply"]
    /\ fs_snap' = [fs_snap EXCEPT ![t] = flushed_sequence[t]]
    /\ UNCHANGED clusterVars
    /\ UNCHANGED << tableVars, configVars, startVars, serial_exec, run_state,
                    failed_tables, read_start, cursor, buf, rb_pc, lock_idx,
                    log_entry_buf, table_batches, replayed >>

\* serial_exec_ctxs.lock().await is granted; get_mut finds the context of
\* the table and replay_table_log_entries begins.
RT_Lock(t) ==
    /\ run_state = "running" /\ rb_pc = "tasks"
    /\ task_pc[t] = "wait"
    /\ ctx_mutex = NoTable
    /\ ctx_mutex' = t
    /\ task_pc' = [task_pc EXCEPT ![t] = "apply"]
    /\ fs_snap' = [fs_snap EXCEPT ![t] = flushed_sequence[t]]
    /\ UNCHANGED clusterVars
    /\ UNCHANGED << tableVars, configVars, startVars, serial_exec, run_state,
                    failed_tables, read_start, cursor, buf, rb_pc, lock_idx,
                    log_entry_buf, table_batches, replayed >>

\* replay_table_log_entries on the next entry of the table's ranges; at the
\* end, or on an error, the future returns: the Mutex is released and the
\* loop of replay_single_batch stores an error in failed_tables.
RT_Apply(t) ==
    /\ run_state = "running" /\ rb_pc = "tasks"
    /\ task_pc[t] = "apply"
    /\ \E env \in Envs :
         LET e == wal[Head(buf[t])]
             st == ReplayEntry(t, e, fs_snap[t], env)
             ends == st.status # "ok" \/ Len(buf[t]) = 1
         IN  /\ StoreTable(t, BeforeSetLast(t, st))
             /\ replayed' = [replayed EXCEPT ![t] = Append(@, e.sequence)]
             /\ IF AwaitsFlush(st)
                THEN /\ task_pc' = [task_pc EXCEPT ![t] = "scheduled"]
                     /\ UNCHANGED << buf, ctx_mutex >>
                ELSE /\ buf' = [buf EXCEPT ![t] = IF ends THEN << >> ELSE Tail(@)]
                     /\ task_pc' = [task_pc EXCEPT ![t] =
                           IF ends THEN "done" ELSE "apply"]
                     /\ ctx_mutex' = IF ends THEN NoTable ELSE ctx_mutex
             /\ failed_tables' = IF st.status # "ok"
                                 THEN [failed_tables EXCEPT ![t] = st.status]
                                 ELSE failed_tables
    /\ UNCHANGED clusterVars
    /\ UNCHANGED << configVars, startVars, serial_exec, run_state, read_start,
                    cursor, fs_snap, rb_pc, lock_idx, log_entry_buf,
                    table_batches >>

\* schedule_flush has returned Ok: set_last_sequence, and the loop goes on
\* with the next entry of the table's ranges, or the future returns.
RT_AfterFlush(t) ==
    /\ run_state = "running" /\ rb_pc = "tasks"
    /\ task_pc[t] = "scheduled"
    /\ last_sequence' = [last_sequence EXCEPT ![t] = wal[Head(buf[t])].sequence]
    /\ LET ends == Len(buf[t]) = 1 IN
        /\ buf' = [buf EXCEPT ![t] = IF ends THEN << >> ELSE Tail(@)]
        /\ task_pc' = [task_pc EXCEPT ![t] = IF ends THEN "done" ELSE "apply"]
        /\ ctx_mutex' = IF ends THEN NoTable ELSE ctx_mutex
    /\ UNCHANGED clusterVars
    /\ UNCHANGED << flushed_sequence, memtable, in_flush, frozen, sst,
                    schema_version, round, configVars, startVars, serial_exec,
                    run_state, failed_tables, read_start, cursor, fs_snap,
                    rb_pc, lock_idx, log_entry_buf, table_batches, replayed >>

\* The stream of the batch's futures is exhausted: replay_single_batch
\* returns Ok and the loop pulls again.
RB_BatchDone ==
    /\ run_state = "running" /\ rb_pc = "tasks"
    /\ \A t \in Tables : task_pc[t] \in { "idle", "done" }
    /\ task_pc' = [t \in Tables |-> "idle"]
    /\ rb_pc' = "pull"
    /\ UNCHANGED clusterVars
    /\ UNCHANGED << tableVars, configVars, startVars, serial_exec, run_state,
                    failed_tables, read_start, cursor, buf, fs_snap, lock_idx,
                    log_entry_buf, table_batches, ctx_mutex, replayed >>

RegionBasedNext ==
    \/ RB_Scan
    \/ RB_Lock
    \/ RB_Pull
    \/ RB_BatchDone
    \/ \E t \in Tables :
          RT_Start(t) \/ RT_Lock(t) \/ RT_Apply(t) \/ RT_AfterFlush(t)

\* ------------------------------------------------------------ live writer
\* A live write of table t takes the table's serial executor.
LW_Acquire(t) ==
    /\ live < MaxLive
    /\ serial_exec[t] = "free"
    /\ serial_exec' = [serial_exec EXCEPT ![t] = "writer"]
    /\ UNCHANGED clusterVars
    /\ UNCHANGED << tableVars, configVars, regionVars, startVars, run_state,
                    failed_tables, task_pc, read_start, cursor, buf, fs_snap,
                    replayed >>

\* Holding it, the write appends its entry to the log with a new sequence,
\* inserts the rows, advances last_sequence, and lets the executor go.
LW_Write(t) ==
    /\ serial_exec[t] = "writer"
    /\ LET sequence == Len(wal) + 1 IN
        /\ wal' = Append(wal, [table_id |-> t, sequence |-> sequence,
                                payload |-> PlainWrite])
        /\ memtable' = [memtable EXCEPT ![t] = Append(@, sequence)]
        /\ last_sequence' = [last_sequence EXCEPT ![t] = sequence]
    /\ live' = live + 1
    /\ serial_exec' = [serial_exec EXCEPT ![t] = "free"]
    /\ UNCHANGED clusterVars
    /\ UNCHANGED << flushed_sequence, in_flush, frozen, sst, mode, batch_size,
                    fanVars, regionVars, startVars, run_state, failed_tables,
                    task_pc, read_start, cursor, buf, fs_snap, replayed,
                    schema_version, round >>

LiveNext == \E t \in Tables : LW_Acquire(t) \/ LW_Write(t)

\* ------------------------------------------------- buffer_unordered alone
\* The stream of `futures` per-table futures behind buffer_unordered(20):
\* the next one is taken while fewer than 20 are in progress.
FO_Take ==
    /\ taken < futures
    /\ CanStart(taken - completed)
    /\ taken' = taken + 1
    /\ UNCHANGED clusterVars
    /\ UNCHANGED << tableVars, mode, batch_size, wal, live, futures, completed,
                    regionVars, startVars, serial_exec, run_state,
                    failed_tables, task_pc, read_start, cursor, buf, fs_snap,
                    replayed >>

\* One of the futures in progress yields its result.
FO_Complete ==
    /\ completed < taken
    /\ completed' = completed + 1
    /\ UNCHANGED clusterVars
    /\ UNCHANGED << tableVars, mode, batch_size, wal, live, futures, taken,
                    regionVars, startVars, serial_exec, run_state,
                    failed_tables, task_pc, read_start, cursor, buf, fs_snap,
                    replayed >>

Next ==
    \/ Replay
    \/ TableBasedNext
    \/ TB_Return
    \/ RegionBasedNext
    \/ \E t \in Tables : FlushDone(t)

Spec == Init /\ [][Next]_vars

\* Logs of plain writes, short enough for MaxLive more entries to fit in
\* MaxWalLen.
PlainInit ==
    /\ InitOn({ w \in Wals({ PlainWrite }) : Len(w) + MaxLive <= MaxWalLen })
    /\ futures = 0 /\ taken = 0 /\ completed = 0
    /\ ClusterInit

\* Logs that hold entries of the first table only, with every variant of
\* ReadPayload.
EntriesInit ==
    /\ InitOn(WalsOf({ 1 }, ReadPayloads))
    /\ futures = 0 /\ taken = 0 /\ completed = 0
    /\ ClusterInit
SpecEntries == EntriesInit /\ [][Next]_vars

\* Region based replay of a log that also holds entries of a table that is
\* not among the tables of the run.
ForeignInit ==
    /\ InitOn(WalsOf(Tables \cup { ForeignTable }, { PlainWrite }))
    /\ mode = "RegionBased"
    /\ futures = 0 /\ taken = 0 /\ completed = 0
    /\ ClusterInit
ForeignNext == Replay \/ RegionBasedNext \/ \E t \in Tables : FlushDone(t)
SpecForeign == ForeignInit /\ [][ForeignNext]_vars

\* replay() called up to MaxRuns times.
RerunNext == Next \/ ReplayAgain
SpecRerun == PlainInit /\ [][RerunNext]_vars

\* Replay with live writers that ask for the tables' serial executors.
LiveWriterNext == Next \/ LiveNext
SpecLive == PlainInit /\ [][LiveWriterNext]_vars

\* The runtime keeps polling the futures of the run, so that a run with a
\* future that can take a step does take one, and a live writer that holds
\* an executor finishes its write.
ReplayStep == TableBasedNext \/ TB_Return \/ RegionBasedNext
ReplayFairness ==
    /\ WF_vars(ReplayStep)
    /\ WF_vars(\E t \in Tables : LW_Write(t))
\* Replay with live writers, batches of one entry, nothing flushed before.
TerminateInit == PlainInit /\ batch_size = 1 /\ flushed_sequence = [t \in Tables |-> 0]
SpecTerminate == TerminateInit /\ [][LiveWriterNext]_vars
SpecTerminateFair == SpecTerminate /\ ReplayFairness

\* buffer_unordered(20) over a stream of up to MaxFutures futures.
FanOutInit ==
    /\ InitOn({ << >> })
    /\ futures \in 0..MaxFutures /\ taken = 0 /\ completed = 0
    /\ ClusterInit
FanOutNext == FO_Take \/ FO_Complete
SpecFanOut == FanOutInit /\ [][FanOutNext]_vars

\* ================================================================ cluster
\* The replayer of a node whose cluster controller is looked at on its own:
\* no log, no run.
ReplayQuiet ==
    /\ InitOn({ << >> })
    /\ mode = "TableBased" /\ batch_size = 1
    /\ flushed_sequence = [t \in Tables |-> 0]
    /\ futures = 0 /\ taken = 0 /\ completed = 0

\* ------------------------------------------------------ ShardLockManager
\* Step 1 of an acquisition: node n creates a lease with the configured TTL.
Lock_Grant(n, s) ==
    /\ lease[n][s] = "none"
    /\ lease' = [lease EXCEPT ![n][s] = "granted"]
    /\ UNCHANGED << kv_key, otherThanLock >>

PutOverwrite(n, s) ==
    /\ lease[n][s] = "granted"
    /\ kv_key' = [kv_key EXCEPT ![s] = n]
    /\ lease' = [lease EXCEPT ![n][s] = "holding"]
    /\ UNCHANGED otherThanLock

\* Step 2: the key is put bound to the lease by a compare-and-set that
\* fails if the key exists; a failed acquisition gives the lease back.
Lock_Put(n, s) ==
    /\ lease[n][s] = "granted"
    /\ IF kv_key[s] = NoNode
       THEN /\ kv_key' = [kv_key EXCEPT ![s] = n]
            /\ lease' = [lease EXCEPT ![n][s] = "holding"]
       ELSE /\ lease' = [lease EXCEPT ![n][s] = "none"]
            /\ UNCHANGED kv_key
    /\ UNCHANGED otherThanLock

\* The store drops a key with the lease it is bound to.
LeaseGone(n, s) ==
    /\ lease' = [lease EXCEPT ![n][s] = "none"]
    /\ kv_key' = [kv_key EXCEPT ![s] = IF @ = n THEN NoNode ELSE @]
    /\ UNCHANGED otherThanLock

\* The keepalive stopped refreshing the lease and its TTL ran out.
Lock_Expire(n, s) ==
    /\ lease[n][s] \in { "granted", "holding" }
    /\ LeaseGone(n, s)

\* Release (shutdown, close of the shard): the owner revokes its lease.
Lock_Release(n, s) ==
    /\ lease[n][s] = "holding"
    /\ LeaseGone(n, s)

LockNext ==
    \E n \in Nodes, s \in ShardIds :
        Lock_Grant(n, s) \/ Lock_Put(n, s) \/ Lock_Expire(n, s) \/ Lock_Release(n, s)

LockSpecInit == ReplayQuiet /\ ClusterInit
SpecLock == LockSpecInit /\ [][LockNext]_vars

\* ---------------------------------------------------- Inner::fetch_nodes
OkNodes(t) == [status |-> "ok", version |-> t.version, nodes |-> t.nodes]
ErrNodes(e) == [status |-> e, version |-> 0, nodes |-> NoNodeList]

\* What get_nodes can answer: any version with any node list.
GetNodesResponses == [version : 0..MaxVersion, nodes : 1..MaxNodeLists]

\* Returning Ok(resp) to caller c.
ReturnNodes(c, t) ==
    /\ fn_ret' = [fn_ret EXCEPT ![c] = OkNodes(t)]
    /\ fn_last' = [fn_last EXCEPT ![c] = t.version]
    /\ fn_pc' = [fn_pc EXCEPT ![c] = "idle"]

\* The read of the cache: a cached topology is returned as it is; without
\* one the caller sends a GetNodesRequest.
FN_ReadCache(c) ==
    /\ fn_pc[c] = "idle"
    /\ IF topology.nodes # NoNodeList
       THEN ReturnNodes(c, topology)
       ELSE /\ fn_pc' = [fn_pc EXCEPT ![c] = "get_nodes"]
            /\ UNCHANGED << fn_ret, fn_last >>
    /\ UNCHANGED << topology, fetched, otherThanTopo >>

\* meta_client.get_nodes(req).await: MetaClientFailure, or a response.
FN_GetNodes(c) ==
    /\ fn_pc[c] = "get_nodes"
    /\ \/ /\ fn_ret' = [fn_ret EXCEPT ![c] = ErrNodes("MetaClientFailure")]
          /\ fn_pc' = [fn_pc EXCEPT ![c] = "idle"]
          /\ UNCHANGED fetched
       \/ \E resp \in GetNodesResponses :
             /\ fetched' = [fetched EXCEPT ![c] = resp]
             /\ fn_pc' = [fn_pc EXCEPT ![c] = "update"]
             /\ UNCHANGED fn_ret
    /\ UNCHANGED << topology, fn_last, otherThanTopo >>

UpdateAlways(cached, version) == TRUE

\* ClusterTopology::maybe_update_nodes accepts a version strictly greater
\* than the cached one.
MaybeUpdateNodes(cached, version) == version > cached.version

\* topology.write(): an accepted response is installed and returned; a
\* rejected one sends the caller back to the cache.
FN_Update(c) ==
    /\ fn_pc[c] = "update"
    /\ IF MaybeUpdateNodes(topology, fetched[c].version)
       THEN /\ topology' = fetched[c]
            /\ ReturnNodes(c, fetched[c])
       ELSE /\ fn_pc' = [fn_pc EXCEPT ![c] = "reread"]
            /\ UNCHANGED << topology, fn_ret, fn_last >>
    /\ UNCHANGED << fetched, otherThanTopo >>

RereadReturnsFetched(c) ==
    /\ fn_pc[c] = "reread"
    /\ ReturnNodes(c, fetched[c])
    /\ UNCHANGED << topology, fetched, otherThanTopo >>

RereadInstallsFetched(c) ==
    /\ fn_pc[c] = "reread"
    /\ IF topology.nodes # NoNodeList
       THEN ReturnNodes(c, topology) /\ UNCHANGED topology
       ELSE ReturnNodes(c, fetched[c]) /\ topology' = fetched[c]
    /\ UNCHANGED << fetched, otherThanTopo >>

\* "The fetched topology is outdated, and we will use the cache."
FN_Reread(c) ==
    /\ fn_pc[c] = "reread"
    /\ IF topology.nodes # NoNodeList
       THEN ReturnNodes(c, topology)
       ELSE /\ fn_ret' = [fn_ret EXCEPT ![c] = ErrNodes("ClusterNodesNotFound")]
            /\ fn_pc' = [fn_pc EXCEPT ![c] = "idle"]
            /\ UNCHANGED fn_last
    /\ UNCHANGED << topology, fetched, otherThanTopo >>

TopologyNext ==
    \E c \in Callers :
        FN_ReadCache(c) \/ FN_GetNodes(c) \/ FN_Update(c) \/ FN_Reread(c)

TopologyInit == ReplayQuiet /\ ClusterInit
SpecTopology == TopologyInit /\ [][TopologyNext]_vars

\* ------------------------------------------------------------- ShardSet
\* shard_set.get(id)
ShardSetGet(set, id) == IF id \in DOMAIN set THEN set[id] ELSE NoShard

\* shard_set.insert(id, shard): overwrites.
ShardSetInsert(set, id, shard) ==
    [x \in DOMAIN set \cup { id } |-> IF x = id THEN shard ELSE set[x]]

\* shard_set.remove(id)
ShardSetRemove(set, id) == [x \in DOMAIN set \ { id } |-> set[x]]

\* Inner::shard and Inner::list_shards
Shard(id) == ShardSetGet(shard_set, id)
ListShards == { [id |-> id, version |-> shard_set[id].version] : id \in DOMAIN shard_set }

\* ----------------------------------------------------- Inner::open_shard
ShardInfos == [id : ShardIds, version : 1..MaxVersion]

\* What get_tables_of_shards can answer: entries for any shards, each with
\* the shard_info and tables the coordinator has for it.
TablesByShard == UNION { [ids -> Shards] : ids \in SUBSET ShardIds }

OsReturn(o, status, shard) ==
    /\ os_ret' = [os_ret EXCEPT ![o] = [status |-> status, shard |-> shard]]
    /\ os_pc' = [os_pc EXCEPT ![o] = "idle"]

CheckSameVersionRefused(o, shard_info) ==
    /\ os_pc[o] = "idle"
    /\ os_req' = [os_req EXCEPT ![o] = shard_info]
    /\ LET cur == ShardSetGet(shard_set, shard_info.id) IN
       IF shard_info.id \in DOMAIN shard_set /\ ~(cur.version < shard_info.version)
       THEN OsReturn(o, "OpenShard", NoShard)
       ELSE /\ os_pc' = [os_pc EXCEPT ![o] = "get_tables"]
            /\ UNCHANGED os_ret
    /\ os_resp' = [os_resp EXCEPT ![o] = NoResponse]
    /\ UNCHANGED << shard_set, cs_ret, otherThanShards >>

\* The look at the shard set: the same version is returned as it is, a
\* greater one refuses the call, otherwise the coordinator is asked.
OS_Check(o, shard_info) ==
    /\ os_pc[o] = "idle"
    /\ os_req' = [os_req EXCEPT ![o] = shard_info]
    /\ LET cur == ShardSetGet(shard_set, shard_info.id) IN
       IF shard_info.id \in DOMAIN shard_set /\ cur.version = shard_info.version
       THEN OsReturn(o, "ok", cur)
       ELSE IF shard_info.id \in DOMAIN shard_set
               /\ ~(cur.version < shard_info.version)
       THEN OsReturn(o, "OpenShard", NoShard)
       ELSE /\ os_pc' = [os_pc EXCEPT ![o] = "get_tables"]
            /\ UNCHANGED os_ret
    /\ os_resp' = [os_resp EXCEPT ![o] = NoResponse]
    /\ UNCHANGED << shard_set, cs_ret, otherThanShards >>

\* meta_client.get_tables_of_shards(req).await completes.
OS_GetTables(o) ==
    /\ os_pc[o] = "get_tables"
    /\ \/ os_resp' = [os_resp EXCEPT ![o] = NoResponse]
       \/ \E tbs \in TablesByShard :
             os_resp' = [os_resp EXCEPT ![o] = [ok |-> TRUE, tables_by_shard |-> tbs]]
    /\ os_pc' = [os_pc EXCEPT ![o] = "responded"]
    /\ UNCHANGED << shard_set, os_req, os_ret, cs_ret, otherThanShards >>

InsertUnchecked(o) ==
    /\ os_pc[o] = "responded"
    /\ LET resp == os_resp[o]
           id == os_req[o].id
       IN  IF resp.ok /\ id \in DOMAIN resp.tables_by_shard
           THEN /\ shard_set' = ShardSetInsert(shard_set, id, resp.tables_by_shard[id])
                /\ IF Cardinality(DOMAIN resp.tables_by_shard) = 1
                   THEN OsReturn(o, "ok", resp.tables_by_shard[id])
                   ELSE OsReturn(o, "OpenShard", NoShard)
           ELSE /\ OsReturn(o, IF resp.ok THEN "OpenShard" ELSE "OpenShardWithCause", NoShard)
                /\ UNCHANGED shard_set
    /\ UNCHANGED << os_req, os_resp, cs_ret, otherThanShards >>

InsertNoDisplace(o) ==
    /\ os_pc[o] = "responded"
    /\ LET resp == os_resp[o]
           id == os_req[o].id
       IN  IF resp.ok /\ DOMAIN resp.tables_by_shard = { id }
           THEN /\ shard_set' = IF id \in DOMAIN shard_set THEN shard_set
                                ELSE ShardSetInsert(shard_set, id, resp.tables_by_shard[id])
                /\ OsReturn(o, "ok", resp.tables_by_shard[id])
           ELSE /\ OsReturn(o, IF resp.ok THEN "OpenShard" ELSE "OpenShardWithCause", NoShard)
                /\ UNCHANGED shard_set
    /\ UNCHANGED << os_req, os_resp, cs_ret, otherThanShards >>

\* The rest of open_shard: the response must be Ok, hold exactly one
\* entry, and hold the requested id; the shard built from it is inserted.
OS_Insert(o) ==
    /\ os_pc[o] = "responded"
    /\ LET resp == os_resp[o]
           id == os_req[o].id
       IN  IF ~resp.ok
           THEN OsReturn(o, "OpenShardWithCause", NoShard) /\ UNCHANGED shard_set
           ELSE IF Cardinality(DOMAIN resp.tables_by_shard) # 1
           THEN OsReturn(o, "OpenShard", NoShard) /\ UNCHANGED shard_set
           ELSE IF id \notin DOMAIN resp.tables_by_shard
           THEN OsReturn(o, "OpenShard", NoShard) /\ UNCHANGED shard_set
           ELSE /\ shard_set' = ShardSetInsert(shard_set, id, resp.tables_by_shard[id])
                /\ OsReturn(o, "ok", resp.tables_by_shard[id])
    /\ UNCHANGED << os_req, os_resp, cs_ret, otherThanShards >>

CloseKeepsShard(id) ==
    /\ IF id \in DOMAIN shard_set
       THEN cs_ret' = [id |-> id, status |-> "ok", shard |-> shard_set[id]]
       ELSE cs_ret' = [id |-> id, status |-> "ShardNotFound", shard |-> NoShard]
    /\ UNCHANGED << shard_set, os_pc, os_req, os_resp, os_ret, otherThanShards >>

\* Inner::close_shard(shard_id)
CS_Close(id) ==
    /\ IF id \in DOMAIN shard_set
       THEN cs_ret' = [id |-> id, status |-> "ok", shard |-> shard_set[id]]
       ELSE cs_ret' = [id |-> id, status |-> "ShardNotFound", shard |-> NoShard]
    /\ shard_set' = ShardSetRemove(shard_set, id)
    /\ UNCHANGED << os_pc, os_req, os_resp, os_ret, otherThanShards >>

\* open_shard and close_shard called one after the other: every call is
\* made by the first opener.
ShardsNext ==
    \/ \E o \in { 1 } :
          \/ \E shard_info \in ShardInfos : OS_Check(o, shard_info)
          \/ OS_GetTables(o)
          \/ OS_Insert(o)
    \/ \E id \in ShardIds : CS_Close(id)

ShardsInit == ReplayQuiet /\ ClusterInit
SpecShards == ShardsInit /\ [][ShardsNext]_vars

\* The coordinator answers with the version the caller asked for, when it
\* answers for the shard asked for.
AnswersRequest(o) ==
    (os_resp'[o].ok /\ os_req[o].id \in DOMAIN os_resp'[o].tables_by_shard) =>
        os_resp'[o].tables_by_shard[os_req[o].id].version = os_req[o].version

\* open_shard calls in flight together.
RaceNext ==
    \E o \in Openers :
        \/ \E shard_info \in ShardInfos : OS_Check(o, shard_info)
        \/ OS_GetTables(o) /\ AnswersRequest(o)
        \/ OS_Insert(o)

RaceInit == ReplayQuiet /\ ClusterInit
SpecRace == RaceInit /\ [][RaceNext]_vars

\* ------------------------------------------- shard_lock_key_prefix
\* root_path.starts_with(c)
StartsWith(str, c) == Len(str) > 0 /\ str[1] = c

\* const SHARD_LOCK_KEY: &str = "shards"
SHARD_LOCK_KEY == << "s", "h", "a", "r", "d", "s" >>

KeyPrefixRootNotEmpty(root, cluster) ==
    IF root = << >> \/ cluster = << >>
    THEN [status |-> "InvalidArguments", value |-> << >>]
    ELSE [status |-> "ok",
          value |-> root \o << "/" >> \o cluster \o << "/" >> \o SHARD_LOCK_KEY]

\* ClusterImpl::shard_lock_key_prefix(root_path, cluster_name)
ShardLockKeyPrefix(root, cluster) ==
    IF ~StartsWith(root, "/")
    THEN [status |-> "InvalidArguments", value |-> << >>]
    ELSE IF cluster = << >>
    THEN [status |-> "InvalidArguments", value |-> << >>]
    ELSE [status |-> "ok",
          value |-> root \o << "/" >> \o cluster \o << "/" >> \o SHARD_LOCK_KEY]

\* try_new calls it with the two strings of the configuration.
KP_Call ==
    /\ key_prefix.status = "none"
    /\ key_prefix' = ShardLockKeyPrefix(root_path, cluster_name)
    /\ UNCHANGED << root_path, cluster_name, otherThanKey >>

\* Strings of up to MaxStrLen characters, and the cases of
\* test_format_shard_lock_key_prefix.
Chars == { "/", "x", "v" }
Strings == UNION { [1..n -> Chars] : n \in 0..MaxStrLen }
TestCases ==
    { << Horaedb, DefaultCluster >>,
      << << >>, DefaultCluster >>,
      << << "v", "v", "v" >>, DefaultCluster >>,
      << << "/", "x" >>, << >> >> }
KeyPrefixInit ==
    /\ ReplayQuiet /\ ControllerInit /\ DefaultNewInit
    /\ KeyInit((Strings \X Strings) \cup TestCases)
KeyPrefixNext == KP_Call
SpecKeyPrefix == KeyPrefixInit /\ [][KeyPrefixNext]_vars

\* --------------------------------------------------- ClusterImpl::try_new
ValidateTtlOnly(ttl_sec, interval_ms) ==
    IF ttl_sec < MIN_SHARD_LOCK_LEASE_TTL_SEC THEN "ErrTtl" ELSE "ok"

\* EtcdClientConfig::validate: Duration::from_secs(ttl) is ttl * 1000 ms.
Validate(ttl_sec, interval_ms) ==
    IF ttl_sec < MIN_SHARD_LOCK_LEASE_TTL_SEC THEN "ErrTtl"
    ELSE IF interval_ms >= ttl_sec * 1000 THEN "ErrInterval"
    ELSE "ok"

\* if let Err(e) = config.etcd_client.validate() { return InvalidArguments }
TN_Validate ==
    /\ tn_pc = "validate"
    /\ tn_pc' = IF Validate(lease_ttl_sec, check_interval) # "ok"
                THEN "InvalidArguments" ELSE "options"
    /\ UNCHANGED << lease_ttl_sec, check_interval, cluster_type, connects,
                    otherThanNew >>

\* build_etcd_connect_options(..).await: reading the TLS files may fail.
TN_BuildOptions ==
    /\ tn_pc = "options"
    /\ \E fail \in BOOLEAN :
          tn_pc' = IF fail THEN "InitEtcdClientConfig" ELSE "connect"
    /\ UNCHANGED << lease_ttl_sec, check_interval, cluster_type, connects,
                    otherThanNew >>

\* etcd_client::Client::connect(..).await
TN_Connect ==
    /\ tn_pc = "connect"
    /\ connects' = connects + 1
    /\ \E fail \in BOOLEAN :
          tn_pc' = IF fail THEN "EtcdClientFailureWithCause" ELSE "build"
    /\ UNCHANGED << lease_ttl_sec, check_interval, cluster_type, otherThanNew >>

\* The rest of try_new: shard_lock_key_prefix(..)?, ShardLockManager::new,
\* Inner::new, Ok(Self { .. }).
TN_Build ==
    /\ tn_pc = "build"
    /\ key_prefix' = ShardLockKeyPrefix(root_path, cluster_name)
    /\ tn_pc' = IF key_prefix'.status = "ok" THEN "ok" ELSE "InvalidArguments"
    /\ UNCHANGED << lease_ttl_sec, check_interval, cluster_type, connects,
                    root_path, cluster_name, replayVars, lockVars, topoVars,
                    shardVars, hbVars, compactVars >>

\* ------------------------------------------------------------- compact
\* Inner::compact: compaction_client() asks get_compaction_node, which is
\* unimplemented!(): the call panics before a client is built and before
\* execute_compaction_task is sent.
InnerCompact ==
    /\ node_lookups' = node_lookups + 1
    /\ compact_ret' = "panic"

CompactUnguarded ==
    /\ tn_pc = "ok"
    /\ compact_calls < MaxCompacts
    /\ compact_calls' = compact_calls + 1
    /\ InnerCompact
    /\ UNCHANGED otherThanCompact

\* ClusterImpl::compact: ensure!(cluster_type == HoraeDB), then Inner::compact.
Compact ==
    /\ tn_pc = "ok"
    /\ compact_calls < MaxCompacts
    /\ compact_calls' = compact_calls + 1
    /\ IF cluster_type # "HoraeDB"
       THEN /\ compact_ret' = "CompactionOffloadNotAllowed"
            /\ UNCHANGED node_lookups
       ELSE InnerCompact
    /\ UNCHANGED otherThanCompact

\* The configurations: TTLs around the minimum, and check intervals around
\* each TTL, in milliseconds.
TtlSecs ==
    (MIN_SHARD_LOCK_LEASE_TTL_SEC - MaxTtlSlack)..(MIN_SHARD_LOCK_LEASE_TTL_SEC + MaxTtlSlack)
IntervalsMs ==
    { 0, 200 } \cup { ttl * 1000 + d : ttl \in TtlSecs, d \in { -1, 0, 1 } }
ClusterTypes == { "HoraeDB", "CompactionServer" }

\* try_new is called with one of the configurations; a root path may be
\* one that shard_lock_key_prefix refuses.
TryNewInit ==
    /\ ReplayQuiet /\ ControllerInit
    /\ KeyInit({ << Horaedb, DefaultCluster >>, << << >>, DefaultCluster >> })
    /\ NewInit(TtlSecs, IntervalsMs, ClusterTypes, "validate", 0)
TryNewNext ==
    TN_Validate \/ TN_BuildOptions \/ TN_Connect \/ TN_Build \/ Compact
SpecTryNew == TryNewInit /\ [][TryNewNext]_vars

\* ------------------------------------------------- start, heartbeat, stop
StartKeepsSender ==
    /\ stop_pc = "idle"
    /\ nstarted < MaxStarts
    /\ LET t == nstarted + 1 IN
        /\ nstarted' = t
        /\ hb_pc' = [hb_pc EXCEPT ![t] = "top"]
        /\ tx_live' = [tx_live EXCEPT ![t] = TRUE]
        /\ detached' = IF heartbeat_handle = NoTask THEN detached
                       ELSE detached \cup { heartbeat_handle }
        /\ stop_heartbeat_tx' = t
        /\ heartbeat_handle' = t
    /\ stopped' = FALSE
    /\ UNCHANGED << hb_wait, hb_chan, stop_pc, stop_tx, stop_handle, stop_log,
                    hb_resp,
                    hb_sent, meta_client_lease, otherThanHb >>

\* start(): start_heartbeat_loop makes a channel of capacity 1, spawns the
\* loop and stores the Sender and the JoinHandle over whatever the two
\* fields held; the Sender and JoinHandle they held are dropped.
Start ==
    /\ stop_pc = "idle"
    /\ nstarted < MaxStarts
    /\ LET t == nstarted + 1 IN
        /\ nstarted' = t
        /\ hb_pc' = [hb_pc EXCEPT ![t] = "top"]
        /\ tx_live' = [x \in Tasks |->
                         IF x = t THEN TRUE
                         ELSE IF x = stop_heartbeat_tx THEN FALSE
                         ELSE tx_live[x]]
        /\ detached' = IF heartbeat_handle = NoTask THEN detached
                       ELSE detached \cup { heartbeat_handle }
        /\ stop_heartbeat_tx' = t
        /\ heartbeat_handle' = t
    /\ stopped' = FALSE
    /\ UNCHANGED << hb_wait, hb_chan, stop_pc, stop_tx, stop_handle, stop_log,
                    hb_resp,
                    hb_sent, meta_client_lease, otherThanHb >>

SendNothing(t) ==
    /\ hb_pc[t] = "top"
    /\ hb_pc' = [hb_pc EXCEPT ![t] = "rpc"]
    /\ hb_sent' = [hb_sent EXCEPT ![t] = {}]
    /\ UNCHANGED << hb_wait, hb_chan, tx_live, detached, stop_heartbeat_tx,
                    heartbeat_handle, nstarted, stop_pc, stop_tx, stop_handle,
                    stop_log, stopped, hb_resp, meta_client_lease,
                    otherThanHb >>

\* The loop gathers the shard infos and calls send_heartbeat.
HB_Send(t) ==
    /\ hb_pc[t] = "top"
    /\ hb_pc' = [hb_pc EXCEPT ![t] = "rpc"]
    /\ hb_sent' = [hb_sent EXCEPT ![t] = ListShards]
    /\ UNCHANGED << hb_wait, hb_chan, tx_live, detached, stop_heartbeat_tx,
                    heartbeat_handle, nstarted, stop_pc, stop_tx, stop_handle,
                    stop_log, stopped, hb_resp, meta_client_lease,
                    otherThanHb >>

\* Register node every 2/3 lease
HeartbeatInterval == FromMillis((AsMillis(meta_client_lease) * 2) \div 3)

\* self.config.meta_client.lease.0 / 2
ErrorWaitLease == meta_client_lease \div 2

WaitAlwaysInterval(resp) == HeartbeatInterval

\* let wait = match resp { Ok(()) => interval, Err(e) => error_wait_lease }
WaitAfter(resp) == IF resp = "Ok" THEN HeartbeatInterval ELSE ErrorWaitLease

\* send_heartbeat returns and the loop chooses its wait.
HB_Resp(t) ==
    /\ hb_pc[t] = "rpc"
    /\ hb_pc' = [hb_pc EXCEPT ![t] = "wait"]
    /\ \E resp \in { "Ok", "Err" } :
          /\ hb_resp' = [hb_resp EXCEPT ![t] = resp]
          /\ hb_wait' = [hb_wait EXCEPT ![t] = WaitAfter(resp)]
    /\ UNCHANGED << hb_chan, tx_live, detached, stop_heartbeat_tx,
                    heartbeat_handle, nstarted, stop_pc, stop_tx, stop_handle,
                    stop_log, stopped, hb_sent, meta_client_lease,
                    otherThanHb >>

\* time::timeout(wait, rx.recv()).await.is_ok(): recv yields the buffered
\* signal, or None once every Sender is gone; the loop breaks.
HB_Recv(t) ==
    /\ hb_pc[t] = "wait"
    /\ hb_chan[t] > 0 \/ ~tx_live[t]
    /\ hb_chan' = [hb_chan EXCEPT ![t] = 0]
    /\ hb_pc' = [hb_pc EXCEPT ![t] = "done"]
    /\ hb_wait' = [hb_wait EXCEPT ![t] = 0]
    /\ UNCHANGED << tx_live, detached, stop_heartbeat_tx, heartbeat_handle,
                    nstarted, stop_pc, stop_tx, stop_handle, stop_log, stopped,
                    hb_resp,
                    hb_sent, meta_client_lease, otherThanHb >>

\* The wait elapses with recv still pending: the loop goes round.
HB_Timeout(t) ==
    /\ hb_pc[t] = "wait"
    /\ hb_chan[t] = 0 /\ tx_live[t]
    /\ hb_pc' = [hb_pc EXCEPT ![t] = "top"]
    /\ hb_wait' = [hb_wait EXCEPT ![t] = 0]
    /\ UNCHANGED << hb_chan, tx_live, detached, stop_heartbeat_tx,
                    heartbeat_handle, nstarted, stop_pc, stop_tx, stop_handle,
                    stop_log, stopped, hb_resp,
                    hb_sent, meta_client_lease, otherThanHb >>

\* stop(): self.stop_heartbeat_tx.lock().unwrap().take()
Stop_TakeTx ==
    /\ stop_pc = "idle"
    /\ stop_tx' = stop_heartbeat_tx
    /\ stop_heartbeat_tx' = NoTask
    /\ stop_pc' = IF stop_heartbeat_tx # NoTask THEN "send" ELSE "handle"
    /\ stop_log' = [sent |-> FALSE, awaited |-> FALSE]
    /\ UNCHANGED << hb_pc, hb_wait, hb_chan, tx_live, detached,
                    heartbeat_handle, nstarted, stop_handle, stopped,
                    hb_resp,
                    hb_sent, meta_client_lease, otherThanHb >>

\* let _ = tx.send(()).await: the signal is buffered, or the send fails
\* because the receiver is gone; then tx goes out of scope.
Stop_Send ==
    /\ stop_pc = "send"
    /\ hb_pc[stop_tx] = "done" \/ hb_chan[stop_tx] = 0
    /\ hb_chan' = [hb_chan EXCEPT ![stop_tx] = IF hb_pc[stop_tx] = "done" THEN @ ELSE 1]
    /\ tx_live' = [tx_live EXCEPT ![stop_tx] = FALSE]
    /\ stop_tx' = NoTask
    /\ stop_log' = [stop_log EXCEPT !.sent = TRUE]
    /\ stop_pc' = "handle"
    /\ UNCHANGED << hb_pc, hb_wait, detached, stop_heartbeat_tx,
                    heartbeat_handle, nstarted, stop_handle, stopped,
                    hb_resp,
                    hb_sent, meta_client_lease, otherThanHb >>

\* self.heartbeat_handle.lock().unwrap().take(); without a handle stop()
\* returns Ok.
Stop_TakeHandle ==
    /\ stop_pc = "handle"
    /\ stop_handle' = heartbeat_handle
    /\ heartbeat_handle' = NoTask
    /\ IF heartbeat_handle # NoTask
       THEN stop_pc' = "await" /\ UNCHANGED stopped
       ELSE stop_pc' = "idle" /\ stopped' = TRUE
    /\ UNCHANGED << hb_pc, hb_wait, hb_chan, tx_live, detached,
                    stop_heartbeat_tx, nstarted, stop_tx, stop_log,
                    hb_resp,
                    hb_sent, meta_client_lease, otherThanHb >>

AwaitNothing ==
    /\ stop_pc = "await"
    /\ stop_pc' = "idle"
    /\ stop_handle' = NoTask
    /\ stop_log' = [stop_log EXCEPT !.awaited = TRUE]
    /\ stopped' = TRUE
    /\ UNCHANGED << hb_pc, hb_wait, hb_chan, tx_live, detached,
                    stop_heartbeat_tx, heartbeat_handle, nstarted, stop_tx,
                    hb_resp,
                    hb_sent, meta_client_lease, otherThanHb >>

\* let _ = handle.await: completes when the task has finished; stop()
\* returns Ok.
Stop_Await ==
    /\ stop_pc = "await"
    /\ hb_pc[stop_handle] = "done"
    /\ stop_pc' = "idle"
    /\ stop_handle' = NoTask
    /\ stop_log' = [stop_log EXCEPT !.awaited = TRUE]
    /\ stopped' = TRUE
    /\ UNCHANGED << hb_pc, hb_wait, hb_chan, tx_live, detached,
                    stop_heartbeat_tx, heartbeat_handle, nstarted, stop_tx,
                    hb_resp,
                    hb_sent, meta_client_lease, otherThanHb >>

HeartbeatNext ==
    \/ Start
    \/ \E t \in Tasks : HB_Send(t) \/ HB_Resp(t) \/ HB_Recv(t) \/ HB_Timeout(t)
    \/ Stop_TakeTx \/ Stop_Send \/ Stop_TakeHandle \/ Stop_Await

Leases == { FromMillis(ms) : ms \in 1..MaxLeaseMs }
HeartbeatInit ==
    /\ ReplayQuiet
    /\ LockInit /\ TopoInit /\ ShardInit /\ CompactInit
    /\ \E l \in Leases : HbInitOn(l)
    /\ KeyInit(DefaultConfigs) /\ DefaultNewInit
SpecHeartbeat == HeartbeatInit /\ [][HeartbeatNext]_vars

\* The runtime polls the spawned task and the stop() future, and the
\* heartbeat RPC returns.
HeartbeatFairness ==
    /\ \A t \in Tasks : WF_vars(HB_Send(t)) /\ WF_vars(HB_Resp(t)) /\ WF_vars(HB_Recv(t))
    /\ WF_vars(Stop_Send) /\ WF_vars(Stop_TakeHandle) /\ WF_vars(Stop_Await)
SpecHeartbeatLive == SpecHeartbeat /\ HeartbeatFairness

\* The heartbeat loop of one start() beside open_shard and close_shard.
TickNext ==
    \/ Start /\ nstarted = 0
    \/ \E t \in Tasks : HB_Send(t) \/ HB_Resp(t) \/ HB_Timeout(t)
    \/ \E o \in { 1 } :
          \/ \E shard_info \in ShardInfos : shard_info.version = 1 /\ OS_Check(o, shard_info)
          \/ OS_GetTables(o)
          \/ OS_Insert(o)
    \/ \E id \in ShardIds : CS_Close(id)

TickInit == ReplayQuiet /\ ClusterInit
SpecTick == TickInit /\ [][TickNext]_vars

\* ------------------------------------------- split_log_batch_by_table
\* The table ids of the example in the comment of the function.
ExampleIds == << 1, 1, 2, 2, 2, 3, 3, 3, 3, 1, 1 >>

\* The table id sequences of the batches given to the function.
SplitIds ==
    UNION { [1..n -> Tables \cup { ForeignTable }] : n \in 0..MaxSplitLen }
        \cup { ExampleIds }

LogOfIds(ids) ==
    [i \in 1..Len(ids) |-> [table_id |-> ids[i], sequence |-> i, payload |-> PlainWrite]]

\* A call of split_log_batch_by_table with the first n entries of the log
\* as the batch and the vector of the call before as table_batches.
SplitBatch(n) ==
    /\ n \in 0..Len(wal)
    /\ LET batch == [i \in 1..n |-> i] IN
        /\ log_entry_buf' = batch
        /\ table_batches' = SplitLogBatchByTable(BatchTableIds(batch), table_batches)
    /\ UNCHANGED clusterVars
    /\ UNCHANGED << tableVars, configVars, startVars, serial_exec, run_state,
                    failed_tables, task_pc, read_start, cursor, buf, fs_snap,
                    rb_pc, lock_idx, ctx_mutex, replayed >>

SplitInit ==
    /\ InitOn({ LogOfIds(ids) : ids \in SplitIds })
    /\ mode = "RegionBased" /\ batch_size = 1
    /\ flushed_sequence = [t \in Tables |-> 0]
    /\ futures = 0 /\ taken = 0 /\ completed = 0
    /\ ClusterInit
SplitNext == \E n \in 0..Len(wal) : SplitBatch(n)
SpecSplit == SplitInit /\ [][SplitNext]_vars

\* ------------------------------------------------------------- reference
\* What a run must leave in table t, read off the log alone: it depends on
\* neither the strategy, nor the batch size, nor the entries of other tables.
SetToSeq(S) == FirstN(S, Cardinality(S))

\* The entries of table t above the flushed sequence of the start of the run.
LiveEntries(t) ==
    { i \in 1..Len(wal) : wal[i].table_id = t /\ wal[i].sequence > start_flushed[t] }

IsStaleWrite(e) == e.payload.kind = "Write" /\ e.payload.version # TableSchemaVersion

RefLast(t) ==
    LET S == { wal[i].sequence : i \in { j \in LiveEntries(t) : ~IsStaleWrite(wal[j]) } }
    IN  IF S = {} THEN start_last[t] ELSE Max(S)

RefRows(t) ==
    { wal[i].sequence : i \in { j \in LiveEntries(t) :
          /\ wal[j].payload.kind = "Write"
          /\ ~IsStaleWrite(wal[j])
          /\ ~wal[j].payload.key_too_large } }

\* The rows replay inserted: in the memtable, or flushed out of it.
Rows(t) == Range(memtable[t]) \cup sst[t]

HardErrors == { "ErrScan", "ErrPull" }
NoFailure == \A t \in Tables : failed_tables[t] = "none"

\* ------------------------------------------------------------------ claims

\* C1: after a run that reports no failure for table T, T.last_sequence is
\* the highest sequence among T's log entries above the flushed sequence of
\* the start, whatever their payload or schema version; unchanged if there
\* is none.
C1_LastSequenceIsHighest ==
    run_state = "ok" =>
        \A t \in Tables :
            failed_tables[t] = "none" =>
                last_sequence[t] =
                    IF LiveEntries(t) = {} THEN start_last[t]
                    ELSE Max({ wal[i].sequence : i \in LiveEntries(t) })

\* C2: an entry whose sequence is not above the table's flushed sequence is
\* never inserted into the memtable and never changes last_sequence; with
\* flushed_sequence 1 and entries 1, 2, 3 of one table, all plain writes
\* (the spec's 100 and 50, 101, 102), the run ends with last_sequence 3 and
\* the rows of 2 and 3. The flushed sequence an entry is compared with is the
\* one replay_table_log_entries read when it was called.
OldLogWal == [i \in 1..3 |-> [table_id |-> 1, sequence |-> i, payload |-> PlainWrite]]
OldLogExample ==
    (wal = OldLogWal /\ start_flushed[1] = 1 /\ run_state = "ok" /\ NoFailure)
        => /\ last_sequence[1] = 3
           /\ memtable[1] = SetToSeq({ 2, 3 } \ sst[1])
           /\ Rows(1) = { 2, 3 }
C2_OldLogsSkipped ==
    /\ [](OldLogExample /\ \A t \in Tables : \A s \in Rows(t) : s > start_flushed[t])
    /\ [][\A t \in Tables :
            /\ Len(memtable'[t]) > Len(memtable[t])
                  => memtable'[t][Len(memtable'[t])] > flushed_sequence[t]
            /\ last_sequence'[t] # last_sequence[t]
                  => last_sequence'[t] > fs_snap[t]]_vars
C2_Witness ==
    /\ wal = OldLogWal /\ start_flushed[1] = 1 /\ run_state = "ok" /\ NoFailure
    /\ mode = "RegionBased"
    /\ replayed[1] = << 1, 2, 3 >>
    /\ memtable[1] = << 2, 3 >>

\* C3: when the replay of table A fails and that of table B does not, A is
\* in the failure map, B is not, and B ends as the log of B alone says:
\* A's failure neither stops nor cancels B.
C3_FailureIsolation ==
    run_state = "ok" =>
        \A a, b \in Tables :
            (failed_tables[a] # "none" /\ failed_tables[b] = "none") =>
                /\ last_sequence[b] = RefLast(b)
                /\ Rows(b) = RefRows(b)
                /\ task_pc[b] \in { "done", "idle" } /\ buf[b] = << >>
C3_Witness ==
    /\ run_state = "ok"
    /\ failed_tables[1] \in { "Write", "Flush" } /\ failed_tables[2] = "none"
    /\ \E i, j \in 1..Len(wal) :
          /\ i < j /\ wal[i].table_id = 1 /\ wal[j].table_id = 2
          /\ replayed[1] = << i >> /\ j \in Range(memtable[2])

\* C4: with no error, the table based and the region based replay of the
\* same log from the same tables end with the same last_sequence and the
\* same memtable contents, for every batch size and every interleaving of
\* the tables' entries: both end as the log says, which names no strategy.
C4_StrategiesAgree ==
    (run_state = "ok" /\ NoFailure) =>
        \A t \in Tables :
            /\ last_sequence[t] = RefLast(t)
            /\ memtable[t] = SetToSeq(RefRows(t) \ sst[t])
            /\ sst[t] \subseteq RefRows(t)
C4_Witness ==
    /\ run_state = "ok" /\ NoFailure
    /\ mode = "RegionBased"
    /\ \E tb \in table_batches : Len(tb.ranges) = 2 /\ Len(memtable[tb.table_id]) = 2

\* C5: a second replay() on the same shard with the log unchanged leaves
\* every table as the first run left it (same last_sequence, same rows in
\* the memtable): the second run applies no entry. Stated for two runs that
\* both return an empty failure map, with no flush finishing meanwhile.
C5_SecondRunAppliesNothing ==
    (/\ runs = 2 /\ prev_ok /\ run_state = "ok" /\ NoFailure
     /\ flushed_sequence = start_flushed)
        => \A t \in Tables :
              /\ last_sequence[t] = start_last[t]
              /\ memtable[t] = start_mem[t]

\* C6: split_log_batch_by_table gives, for each table id, ranges whose
\* concatenation lists exactly the indices of the batch entries with that
\* id, each once, in batch order; no index is left out or given to another
\* table.
RECURSIVE RangeIndices(_)
RangeIndices(ranges) ==
    IF ranges = << >> THEN << >>
    ELSE [k \in 1..(Head(ranges).end - Head(ranges).start) |-> Head(ranges).start + k - 1]
         \o RangeIndices(Tail(ranges))
IndicesOf(ids, id) == SetToSeq({ i \in 0..(Len(ids) - 1) : ids[i + 1] = id })
C6_SplitCovers ==
    LET ids == BatchTableIds(log_entry_buf) IN
    /\ \A tb \in table_batches : RangeIndices(tb.ranges) = IndicesOf(ids, tb.table_id)
    /\ \A i \in 1..Len(ids) : \E tb \in table_batches : tb.table_id = ids[i]
    /\ \A tb1, tb2 \in table_batches : tb1.table_id = tb2.table_id => tb1 = tb2
C6_Witness ==
    /\ Len(log_entry_buf) = 3
    /\ \E tb \in table_batches : Len(tb.ranges) = 2
    /\ Cardinality(table_batches) = 2

\* C7: while replay mutates table T, replay holds T's serial executor, so a
\* live writer, which mutates T only while it holds that executor, changes
\* neither T's memtable nor T's last_sequence in between: it gets at T only
\* when T's replay is over (or has not begun).
ReplayMutating(t) ==
    \/ mode = "TableBased" /\ task_pc[t] \in { "pull", "apply", "scheduled" }
    \/ mode = "RegionBased" /\ rb_pc \in { "pull", "tasks" }
C7_ReplayHoldsExecutor ==
    /\ [](\A t \in Tables : ReplayMutating(t) => serial_exec[t] = "replay")
    /\ [][\A t \in Tables :
            (\/ Len(memtable'[t]) > Len(memtable[t])
             \/ last_sequence'[t] # last_sequence[t])
            => \/ serial_exec[t] = "replay" /\ ReplayMutating(t)
               \/ serial_exec[t] = "writer" /\ ~ReplayMutating(t)]_vars
C7_Witness ==
    /\ mode = "TableBased" /\ live = 1
    /\ task_pc[1] = "done" /\ task_pc[2] = "apply"
    /\ Len(memtable[1]) = 2 /\ Len(replayed[1]) = 1
    /\ last_sequence[1] = Len(wal) /\ wal[Len(wal)].table_id = 1

\* C8: with sequences strictly increasing per table, each strategy walks
\* the entries of one table in strictly ascending sequence order across all
\* batches, also when the table has several runs in one region batch; so
\* last_sequence never decreases during replay.
Ascending(q) == \A i, j \in 1..Len(q) : i < j => q[i] < q[j]
C8_AscendingOrder ==
    /\ [](\A t \in Tables : Ascending(replayed[t]))
    /\ [][\A t \in Tables : last_sequence'[t] >= last_sequence[t]]_vars
C8_Witness ==
    /\ mode = "RegionBased" /\ run_state = "ok"
    /\ replayed[1] = << 1, 3 >> /\ last_sequence[1] = 3
    /\ \E tb \in table_batches : tb.table_id = 1 /\ Len(tb.ranges) = 2

\* C9: run returns an error only for a failure of the whole shard (the scan
\* cannot be created, the pull of a region batch fails); a failure of one
\* table (open of its read, pull of its batch, insert, flush scheduling) is
\* an entry of the failure map, and run returns the map: a table that is
\* not in the map had all its entries walked.
Walked(t) ==
    IF mode = "TableBased" THEN SetToSeq({ wal[i].sequence : i \in LiveEntries(t) })
    ELSE SetToSeq({ wal[i].sequence : i \in { j \in 1..Len(wal) : wal[j].table_id = t } })
C9_HardErrorOnlyForShard ==
    /\ [](/\ mode = "TableBased" => run_state \notin HardErrors
          /\ run_state = "ok" =>
                \A t \in Tables : failed_tables[t] = "none" => replayed[t] = Walked(t))
    /\ [][/\ (run_state' \in HardErrors /\ run_state \notin HardErrors)
                => rb_pc \in { "scan", "pull" } /\ failed_tables' = failed_tables
          /\ \A t \in Tables :
                (failed_tables'[t] # "none" /\ failed_tables[t] = "none")
                    => run_state' = "running"]_vars
C9_Witness ==
    /\ run_state = "ok"
    /\ failed_tables[1] = "Pull" /\ failed_tables[2] = "OpenRead"

\* C10: at every moment the per-table futures taken from the stream and not
\* yet completed are at most 20, however many tables there are.
C10_AtMostTwentyInFlight == taken - completed <= FanOut
C10_Witness == taken - completed = FanOut /\ taken < futures

\* C11: at no time do two nodes both hold a live lease on the lock key of
\* one shard: the key of a holder is bound to its lease for as long as the
\* lease lives, and an acquisition succeeds only while the key is absent.
C11_LeaseExclusive ==
    /\ [](\A s \in ShardIds : \A n, m \in Nodes :
            lease[n][s] = "holding" /\ lease[m][s] = "holding" => n = m)
    /\ [](\A s \in ShardIds : \A n \in Nodes :
            lease[n][s] = "holding" => kv_key[s] = n)
    /\ [][\A s \in ShardIds : \A n \in Nodes :
            lease[n][s] # "holding" /\ lease'[n][s] = "holding"
                => kv_key[s] = NoNode]_vars
C11_Witness ==
    /\ lease[1][1] = "holding" /\ lease[2][1] = "none" /\ lease[3][1] = "granted"
    /\ lease[2][2] = "holding"

\* C12: across every interleaving of fetch_nodes calls, the version in the
\* topology cache never decreases (a change of the cache raises it
\* strictly), and the versions one caller gets from successive calls never
\* decrease.
C12_TopologyMonotonic ==
    /\ [][topology' # topology => topology'.version > topology.version]_vars
    /\ [][\A c \in Callers : fn_last'[c] >= fn_last[c]]_vars
C12_Witness ==
    /\ topology.version = 2
    /\ fn_pc[1] = "reread" /\ fetched[1].version = 1
    /\ fn_last[2] = 2

\* C17: fetch_nodes answers from the cache, without a request to the
\* coordinator, whenever the cache is present; a fetched topology is
\* installed only if its version is strictly greater than the cached one;
\* and a caller whose fetch was overtaken by a newer cached topology returns
\* the version and nodes of the cache, not the ones it fetched.
C17_NewerCacheWins ==
    /\ [][\A c \in Callers :
            fn_pc[c] = "idle" /\ topology.nodes # NoNodeList
                => /\ fn_pc'[c] = "idle"
                   /\ fn_ret'[c] \in { fn_ret[c], OkNodes(topology) }]_vars
    /\ [][\A c \in Callers :
            fn_pc[c] = "update" /\ fn_pc'[c] # "update"
                => topology' = IF fetched[c].version > topology.version
                               THEN fetched[c] ELSE topology]_vars
    /\ [][\A c \in Callers :
            /\ fn_pc[c] \in { "update", "reread" } /\ fn_pc'[c] = "idle"
            /\ topology.version > fetched[c].version
            => fn_ret'[c] = OkNodes(topology)]_vars
C17_Witness ==
    /\ fn_pc[1] = "idle"
    /\ fetched[1] = [version |-> 1, nodes |-> 1]
    /\ fn_ret[1] = [status |-> "ok", version |-> 2, nodes |-> 2]
    /\ topology = [version |-> 2, nodes |-> 2]

\* A step in which opener o starts an open_shard call.
OsCalled(o) ==
    /\ os_pc[o] = "idle"
    /\ os_req'[o] # os_req[o] \/ os_ret'[o] # os_ret[o] \/ os_pc'[o] # "idle"
\* A step in which opener o handles the coordinator's response.
OsAnswered(o) == os_pc[o] = "responded" /\ os_pc'[o] = "idle"
OsOk(shard) == [status |-> "ok", shard |-> shard]
OsErr(e) == [status |-> e, shard |-> NoShard]

\* C13: open_shard(info) on a shard set that holds the same id with the same
\* version returns the shard the set holds, sends no request to the
\* coordinator and leaves the set as it is; so does every repetition.
C13_OpenSameVersion ==
    [][\A o \in Openers :
         /\ OsCalled(o)
         /\ os_req'[o].id \in DOMAIN shard_set
         /\ shard_set[os_req'[o].id].version = os_req'[o].version
         => /\ os_ret'[o] = OsOk(shard_set[os_req'[o].id])
            /\ os_pc'[o] = "idle"
            /\ os_resp'[o] = NoResponse
            /\ shard_set' = shard_set]_vars
C13_Witness ==
    /\ os_pc[1] = "idle" /\ os_resp[1] = NoResponse
    /\ os_req[1] = [id |-> 1, version |-> 2]
    /\ os_ret[1] = OsOk([version |-> 2, tables |-> 1])
    /\ Shard(1) = [version |-> 2, tables |-> 1]
    /\ cs_ret.status = "none"

\* C14: open_shard(info) on a set that holds the id with a strictly greater
\* version fails with OpenShard and leaves the set as it is; a call that got
\* past the version check and is answered with exactly the requested shard
\* succeeds, and the set then maps the id to the shard built from the
\* answer, whatever it held for the id before.
C14_OpenOtherVersion ==
    /\ [][\A o \in Openers :
            /\ OsCalled(o)
            /\ os_req'[o].id \in DOMAIN shard_set
            /\ shard_set[os_req'[o].id].version > os_req'[o].version
            => /\ os_ret'[o] = OsErr("OpenShard")
               /\ os_pc'[o] = "idle"
               /\ shard_set' = shard_set]_vars
    /\ [][\A o \in Openers :
            /\ OsAnswered(o)
            /\ os_resp[o].ok
            /\ DOMAIN os_resp[o].tables_by_shard = { os_req[o].id }
            /\ os_resp[o].tables_by_shard[os_req[o].id].version = os_req[o].version
            => LET id == os_req[o].id
                   built == os_resp[o].tables_by_shard[id]
               IN  /\ os_ret'[o] = OsOk(built)
                   /\ DOMAIN shard_set' = DOMAIN shard_set \cup { id }
                   /\ \A x \in DOMAIN shard_set' :
                        shard_set'[x] = IF x = id THEN built ELSE shard_set[x]]_vars
C14_Witness ==
    /\ os_pc[1] = "responded" /\ os_req[1] = [id |-> 1, version |-> 2]
    /\ Shard(1) = [version |-> 1, tables |-> 1]
    /\ os_resp[1].ok
    /\ DOMAIN os_resp[1].tables_by_shard = { 1 }
    /\ os_resp[1].tables_by_shard[1] = [version |-> 2, tables |-> 2]

\* C15: whenever open_shard returns an error, the call has inserted nothing:
\* no step of the call before the answer changes the shard set, a failed
\* request gives OpenShardWithCause, an answer without exactly one entry or
\* without the requested id gives OpenShard, and the step that returns an
\* error leaves the set as it is.
C15_OpenErrorInsertsNothing ==
    /\ [][\A o \in Openers :
            os_pc[o] \in { "idle", "get_tables" } /\ os_pc'[o] # os_pc[o]
            => shard_set' = shard_set]_vars
    /\ [][\A o \in Openers :
            os_ret'[o] # os_ret[o] /\ os_ret'[o].status # "ok"
            => shard_set' = shard_set]_vars
    /\ [][\A o \in Openers :
            OsAnswered(o)
            => LET tbs == os_resp[o].tables_by_shard IN
               /\ ~os_resp[o].ok
                    => os_ret'[o] = OsErr("OpenShardWithCause") /\ shard_set' = shard_set
               /\ os_resp[o].ok /\ (Cardinality(DOMAIN tbs) # 1 \/ os_req[o].id \notin DOMAIN tbs)
                    => os_ret'[o] = OsErr("OpenShard") /\ shard_set' = shard_set]_vars
C15_Witness ==
    /\ os_pc[1] = "idle" /\ os_req[1] = [id |-> 1, version |-> 2]
    /\ os_resp[1].ok /\ DOMAIN os_resp[1].tables_by_shard = { 1, 2 }
    /\ os_ret[1] = OsErr("OpenShard")
    /\ Shard(1) = [version |-> 1, tables |-> 1]

\* C16: close_shard(id) removes a shard the set holds and returns it, and
\* returns ShardNotFound and changes nothing when the set does not hold the
\* id; after a successful close shard(id) is None and list_shards has no
\* entry for id, and only an open_shard brings the id back, so a second
\* close in between returns ShardNotFound.
C16_CloseShard ==
    /\ [][\A id \in ShardIds :
            id \in DOMAIN shard_set /\ id \notin DOMAIN shard_set'
            => /\ cs_ret' = [id |-> id, status |-> "ok", shard |-> shard_set[id]]
               /\ shard_set' = [x \in DOMAIN shard_set \ { id } |-> shard_set[x]]
               /\ Shard(id)' = NoShard
               /\ \A info \in ListShards' : info.id # id]_vars
    /\ [][cs_ret' # cs_ret
            => IF cs_ret'.id \in DOMAIN shard_set
               THEN /\ cs_ret'.status = "ok" /\ cs_ret'.shard = shard_set[cs_ret'.id]
                    /\ cs_ret'.id \notin DOMAIN shard_set'
               ELSE /\ cs_ret' = [id |-> cs_ret'.id, status |-> "ShardNotFound",
                                  shard |-> NoShard]
                    /\ shard_set' = shard_set]_vars
    /\ [][\A id \in ShardIds :
            id \notin DOMAIN shard_set /\ id \in DOMAIN shard_set'
            => \E o \in Openers : OsAnswered(o) /\ os_req[o].id = id]_vars
C16_Witness ==
    /\ cs_ret = [id |-> 1, status |-> "ShardNotFound", shard |-> NoShard]
    /\ os_ret[1] = OsOk([version |-> 1, tables |-> 1])
    /\ os_req[1].id = 1
    /\ Shard(1) = NoShard /\ DOMAIN shard_set = { 2 }

\* C18: stop() after start() ends the heartbeat loop that start() spawned,
\* from whatever point the loop is at: stop() returns only once the task it
\* awaits has finished, no loop whose handle was still held sends a
\* heartbeat after stop() has returned, and a stop() that has sent its
\* signal does return, also when the signal came while a heartbeat RPC was
\* in flight.
C18_StopEndsLoop ==
    /\ [][stop_pc = "await" /\ stop_pc' = "idle"
            => hb_pc[stop_handle] = "done"]_vars
    /\ [](stopped => \A t \in Tasks \ detached : hb_pc[t] \in { "unborn", "done" })
    /\ [][\A t \in Tasks \ detached :
            hb_pc[t] # "rpc" /\ hb_pc'[t] = "rpc" => ~stopped]_vars
    /\ (stop_pc = "send") ~> (stop_pc = "idle" /\ stopped)
C18_Witness ==
    /\ stop_pc = "await" /\ stop_handle = 1
    /\ hb_pc[1] = "rpc" /\ hb_chan[1] = 1
    /\ detached = {}

\* C19: a stop() called before any start(), or after a completed stop(),
\* neither sends a signal nor awaits a task; and once a stop() has returned
\* with no start() after it, no heartbeat task is running, whatever calls
\* of start() and stop() came before.
C19_StopIdempotentNoTaskLeft ==
    /\ (nstarted = 0 \/ stopped) => stop_pc \in { "idle", "handle" }
    /\ stopped => \A t \in Tasks : hb_pc[t] \in { "unborn", "done" }

\* C20: shard_lock_key_prefix(root_path, cluster_name) returns
\* "<root_path>/<cluster_name>/shards" exactly when root_path starts with
\* '/' and cluster_name is not empty, and InvalidArguments otherwise;
\* ("/horaedb", "defaultCluster") gives "/horaedb/defaultCluster/shards",
\* and ("", "defaultCluster"), ("vvv", "defaultCluster"), ("/x", "") are
\* errors.
HoraedbDefaultClusterShards ==
    << "/", "h", "o", "r", "a", "e", "d", "b",
       "/", "d", "e", "f", "a", "u", "l", "t", "C", "l", "u", "s", "t", "e", "r",
       "/", "s", "h", "a", "r", "d", "s" >>
C20_KeyPrefix ==
    key_prefix.status # "none"
    => /\ key_prefix.status \in { "ok", "InvalidArguments" }
       /\ key_prefix.status = "ok"
            <=> /\ root_path # << >> /\ Head(root_path) = "/"
                /\ cluster_name # << >>
       /\ key_prefix.status = "ok"
            => /\ Len(key_prefix.value) = Len(root_path) + Len(cluster_name) + 8
               /\ SubSeq(key_prefix.value, 1, Len(root_path)) = root_path
               /\ key_prefix.value[Len(root_path) + 1] = "/"
               /\ SubSeq(key_prefix.value, Len(root_path) + 2,
                         Len(root_path) + 1 + Len(cluster_name)) = cluster_name
               /\ SubSeq(key_prefix.value, Len(key_prefix.value) - 6,
                         Len(key_prefix.value)) = << "/", "s", "h", "a", "r", "d", "s" >>
       /\ << root_path, cluster_name >> = << Horaedb, DefaultCluster >>
            => key_prefix.value = HoraedbDefaultClusterShards
       /\ << root_path, cluster_name >> \in TestCases \ { << Horaedb, DefaultCluster >> }
            => key_prefix.status = "InvalidArguments"
C20_Witness ==
    /\ root_path = Horaedb /\ cluster_name = DefaultCluster
    /\ key_prefix = [status |-> "ok", value |-> HoraedbDefaultClusterShards]

\* ------------------------------------------------------------------- C21
ValidateAccepts == Validate(lease_ttl_sec, check_interval) = "ok"

\* C21: validate accepts a configuration exactly when the lease TTL is at
\* least 15 s and the check interval is strictly below the TTL; for a
\* configuration it rejects, try_new returns InvalidArguments and nothing
\* else, with no connection to the coordinator made; and an
\* InvalidArguments without a connection is one of a rejected configuration.
C21_ValidateRejectsBeforeConnect ==
    /\ ValidateAccepts <=>
          (lease_ttl_sec >= 15 /\ check_interval < lease_ttl_sec * 1000)
    /\ ~ValidateAccepts =>
          /\ tn_pc \in { "validate", "InvalidArguments" }
          /\ connects = 0
    /\ (tn_pc = "InvalidArguments" /\ connects = 0) => ~ValidateAccepts

\* A TTL of 15 s with a check interval of exactly 15 s was refused.
C21_Witness ==
    /\ lease_ttl_sec = 15 /\ check_interval = 15000
    /\ tn_pc = "InvalidArguments" /\ connects = 0

\* ------------------------------------------------------------------- C22
\* C22: on a controller whose cluster type is not HoraeDB every compact
\* returns CompactionOffloadNotAllowed and get_compaction_node is never
\* called.
C22_CompactRefusedOffHoraeDB ==
    cluster_type # "HoraeDB" =>
        /\ node_lookups = 0
        /\ compact_calls > 0 => compact_ret = "CompactionOffloadNotAllowed"
        /\ compact_calls = 0 => compact_ret = "none"

\* A compaction server was asked twice to compact.
C22_Witness ==
    /\ cluster_type = "CompactionServer"
    /\ compact_calls = MaxCompacts
    /\ compact_ret = "CompactionOffloadNotAllowed"

\* ----------------------------------------------------- rounds of the loop
\* A step is a round of the loop of replay_table_log_entries for table t,
\* on the entry RoundEntry(t), which the check against flushed_sequence let
\* through.
RoundEntry(t) == wal[Head(buf[t])]
RoundStep(t) ==
    /\ task_pc[t] = "apply"
    /\ replayed'[t] # replayed[t]
    /\ RoundEntry(t).sequence > fs_snap[t]

\* The round did not end the call: the rest of the batch is still to be
\* applied, and the table is not in the failure map. A round that has
\* scheduled a flush is at the await of schedule_flush, the entry still at
\* the head of the batch until set_last_sequence.
RoundContinues(t) ==
    /\ failed_tables'[t] = "none"
    /\ IF round'[t].sched = "ok"
       THEN task_pc'[t] = "scheduled" /\ buf'[t] = buf[t]
       ELSE /\ buf'[t] = Tail(buf[t])
            /\ Tail(buf[t]) # << >> => task_pc'[t] = "apply"
            /\ (Tail(buf[t]) = << >> /\ mode = "TableBased") => task_pc'[t] = "pull"

\* An entry of kind k was met and an entry after it was inserted.
AppliedAfter(t, IsKind(_)) ==
    \E i, j \in 1..Len(replayed[t]) :
        /\ i < j
        /\ replayed[t][i] > start_flushed[t]
        /\ IsKind(wal[replayed[t][i]])
        /\ replayed[t][j] \in Range(memtable[t])

\* ------------------------------------------------------------------- C23
\* C23: a round on a Write entry whose row group has another schema version
\* than the table inserts nothing, does not fail the table, and leaves the
\* rest of the batch to be applied.
C23_StaleSchemaSkipped ==
    [][\A t \in Tables :
          (RoundStep(t) /\ IsStaleWrite(RoundEntry(t))) =>
              /\ memtable'[t] = memtable[t]
              /\ RoundContinues(t)]_vars

\* A write with a stale schema version was met, and a later entry of the
\* table is in the memtable.
C23_Witness == failed_tables[1] = "none" /\ AppliedAfter(1, IsStaleWrite)

\* ------------------------------------------------------------------- C24
IsKeyTooLarge(e) ==
    e.payload.kind = "Write" /\ ~IsStaleWrite(e) /\ e.payload.key_too_large

ReplayWalWithCause == { "Write", "Flush" }
LastOf(seq) == seq[Len(seq)]

\* C25: when the insert of a round fails with an error other than
\* KeyTooLarge, or schedule_flush fails, the table is in the failure map
\* with that error, its call has ended, last_sequence is below the sequence
\* of the failing entry; and from then on no entry of the table is met, no
\* row is inserted and last_sequence does not move.
C25_OtherErrorsAbortTable ==
    /\ [](\A t \in Tables :
            /\ (round[t].wres = "Err" \/ round[t].sched = "Err") =>
                  /\ failed_tables[t] =
                        (IF round[t].wres = "Err" THEN "Write" ELSE "Flush")
                  /\ task_pc[t] \in { "done", "idle" } /\ buf[t] = << >>
                  /\ last_sequence[t] < LastOf(replayed[t])
            /\ failed_tables[t] \in ReplayWalWithCause =>
                  (round[t].wres = "Err" \/ round[t].sched = "Err"))
    /\ [][\A t \in Tables :
            failed_tables[t] \in ReplayWalWithCause =>
                /\ replayed'[t] = replayed[t]
                /\ Len(memtable'[t]) <= Len(memtable[t])
                /\ last_sequence'[t] = last_sequence[t]
                /\ failed_tables'[t] = failed_tables[t]]_vars

\* The second entry of the table failed with another error while a third
\* was in the log: the third was never met.
C25_Witness ==
    /\ run_state = "ok" /\ failed_tables[1] = "Write"
    /\ Len(wal) = 3
    /\ replayed[1] = << 1, 2 >> /\ last_sequence[1] = 1
    /\ memtable[1] = << 1 >>

\* ------------------------------------------------------------------- C26
IsDdl(e) == e.payload.kind \in { "AlterSchema", "AlterOptions" }

\* C26: a round on an AlterSchema or AlterOptions entry changes neither the
\* memtable, nor the schema version, nor the flush state of the table, calls
\* no flush and does not fail the table; a round that adds a row to the
\* memtable is one on a Write entry; no step changes a schema version.
C26_DdlNeverApplied ==
    [][\A t \in Tables :
          /\ (RoundStep(t) /\ IsDdl(RoundEntry(t))) =>
                /\ memtable'[t] = memtable[t]
                /\ in_flush'[t] = in_flush[t] /\ frozen'[t] = frozen[t]
                /\ round'[t] = NoRound
                /\ RoundContinues(t)
          /\ Len(memtable'[t]) > Len(memtable[t]) =>
                /\ task_pc[t] = "apply"
                /\ RoundEntry(t).payload.kind = "Write"
          /\ schema_version'[t] = schema_version[t]]_vars

\* An AlterOptions and an AlterSchema entry were met between two writes.
C26_Witness ==
    /\ run_state = "ok" /\ NoFailure
    /\ Len(wal) = 3 /\ replayed[1] = << 1, 2, 3 >>
    /\ wal[1].payload.kind = "AlterOptions"
    /\ wal[2].payload.kind = "AlterSchema"
    /\ memtable[1] = << 3 >> /\ last_sequence[1] = 3

C28_FailedTableSkipped ==
    /\ [](\A t \in Tables :
            (mode = "RegionBased" /\ failed_tables[t] # "none") =>
                task_pc[t] \in { "done", "idle" } /\ buf[t] = << >>)
    /\ [][\A t \in Tables :
            (mode = "RegionBased" /\ failed_tables[t] # "none") =>
                /\ failed_tables'[t] = failed_tables[t]
                /\ replayed'[t] = replayed[t]
                /\ Len(memtable'[t]) <= Len(memtable[t])
                /\ last_sequence'[t] = last_sequence[t]]_vars

\* The first entry of table 1 failed; a later batch holds the next entry
\* of table 1, which got no future and is not met.
C28_Witness ==
    /\ mode = "RegionBased" /\ rb_pc = "tasks"
    /\ failed_tables[1] = "Write" /\ task_pc[1] = "idle"
    /\ replayed[1] = << 1 >>
    /\ \E i \in Range(log_entry_buf) : wal[i].table_id = 1 /\ i > 1

\* ------------------------------------------------------------------- C29
\* The log entries of table t, in log order.
EntriesOfTable(t) == SetToSeq({ i \in 1..Len(wal) : wal[i].table_id = t })

\* C29: in region based replay a batch never holds an entry of a table that
\* was not passed to run; every entry a table's loop meets and every row a
\* table holds is of that table; a table is in the failure map only by a
\* failed round on one of its own entries; and when run returns Ok, every
\* table that is not in the failure map has met each of its entries exactly
\* once, in log order.
C29_ForeignEntriesIgnored ==
    /\ \A i \in Range(log_entry_buf) : wal[i].table_id \in Tables
    /\ \A t \in Tables :
          /\ \A i \in Range(buf[t]) \cup Range(replayed[t]) \cup Rows(t) :
                wal[i].table_id = t
          /\ failed_tables[t] # "none" =>
                /\ replayed[t] # << >>
                /\ round[t].wres = "Err" \/ round[t].sched = "Err"
          /\ (run_state = "ok" /\ failed_tables[t] = "none") =>
                replayed[t] = EntriesOfTable(t)

\* An entry of a foreign table lies between two entries of table 1, which
\* were both met and inserted.
C29_Witness ==
    /\ run_state = "ok" /\ NoFailure
    /\ Len(wal) = 3 /\ wal[2].table_id = ForeignTable
    /\ replayed[1] = << 1, 3 >> /\ memtable[1] = << 1, 3 >>

\* ------------------------------------------------------------------- C30
\* The table's read request has been made and its future has not ended.
CursorBuilt(t) ==
    \/ mode = "TableBased" /\ task_pc[t] \in { "lock", "pull", "apply", "scheduled" }
    \/ mode = "RegionBased" /\ rb_pc \in { "lock", "pull", "tasks" }

\* C30, as stated: the serial executor is taken before the cursor is built,
\* so whenever the Read request of a table or the Scan of the region exists,
\* replay holds the executor of the table.
C30_LockBeforeCursor ==
    \A t \in Tables :
        (run_state = "running" /\ CursorBuilt(t)) => serial_exec[t] = "replay"

\* C30, as the code does it: the cursor is built first. Replay holds a
\* table's executor only after the Read request, from the flushed_sequence
\* of that moment, or the Scan has been made; the step that chooses the read
\* start bound takes no executor; and the flushed_sequence that the loop
\* compares sequences with is read while replay holds the executor.
C30_CursorBeforeLock ==
    /\ [](\A t \in Tables :
            (run_state = "running" /\ serial_exec[t] = "replay") =>
                CursorBuilt(t) \/ (mode = "TableBased" /\ task_pc[t] = "done"))
    /\ [][\A t \in Tables :
            /\ (task_pc[t] = "pending" /\ task_pc'[t] = "lock") =>
                  /\ read_start'[t] = flushed_sequence[t]
                  /\ serial_exec' = serial_exec
                  /\ serial_exec[t] # "replay"
            /\ (rb_pc = "scan" /\ rb_pc' = "lock") =>
                  serial_exec' = serial_exec /\ serial_exec[t] # "replay"
            /\ fs_snap'[t] # fs_snap[t] => serial_exec'[t] = "replay"]_vars

\* The Read request of table 1 exists and a live writer holds the table's
\* executor: its write comes between the choice of the read start bound and
\* the start of replay.
C30_Witness ==
    /\ run_state = "running" /\ mode = "TableBased"
    /\ task_pc[1] = "lock" /\ serial_exec[1] = "writer"

\* ------------------------------------------------------------------- C31
\* Region based replay has locked all tables and has not returned.
RegionReplaying ==
    mode = "RegionBased" /\ run_state = "running" /\ rb_pc \in { "pull", "tasks" }

\* C31: from the end of the locking loop until replay_region_logs returns,
\* replay holds the serial executor of every table of the shard, failed or
\* exhausted ones too, so no live writer holds one or writes; an executor
\* leaves replay's hands only in the step in which the run returns, Ok or
\* with a hard error, and then all of them are released.
C31_RegionHoldsAllExecutors ==
    /\ [](/\ RegionReplaying => \A t \in Tables : serial_exec[t] = "replay"
          /\ (mode = "RegionBased" /\ run_state \in { "ok" } \cup HardErrors) =>
                \A t \in Tables : serial_exec[t] # "replay")
    /\ [][/\ RegionReplaying => (live' = live /\ wal' = wal)
          /\ \A t \in Tables :
                (mode = "RegionBased" /\ serial_exec[t] = "replay"
                 /\ serial_exec'[t] # "replay") =>
                    /\ run_state = "running"
                    /\ run_state' \in { "ok" } \cup HardErrors
                    /\ \A u \in Tables : serial_exec'[u] = "free"]_vars

\* Table 1 failed in an earlier batch; while table 2 is applied in a later
\* one, replay still holds the executor of table 1.
C31_Witness ==
    /\ RegionReplaying /\ rb_pc = "tasks"
    /\ failed_tables[1] # "none" /\ serial_exec[1] = "replay"
    /\ task_pc[2] = "apply"
\* ---------------------------------------------------------------- C32
\* What holds of the loop: a task starts at the top of its loop, from where
\* it can only send; in a wait after Ok the wait is (lease_millis * 2) / 3
\* milliseconds and after Err it is half the lease; and a task ends only by
\* receiving from its channel, never because a heartbeat failed.
C32_LoopWaits ==
    /\ [](\A t \in Tasks : hb_pc[t] = "wait" =>
            hb_wait[t] = IF hb_resp[t] = "Ok"
                         THEN ((AsMillis(meta_client_lease) * 2) \div 3) * 1000000
                         ELSE meta_client_lease \div 2)
    /\ [][\A t \in Tasks :
            /\ (hb_pc[t] = "unborn" /\ hb_pc'[t] # "unborn") => hb_pc'[t] = "top"
            /\ (hb_pc[t] = "top" /\ hb_pc'[t] # "top") => hb_pc'[t] = "rpc"
            /\ (hb_pc[t] = "rpc" /\ hb_pc'[t] # "rpc") => hb_pc'[t] = "wait"
            /\ (hb_pc[t] # "done" /\ hb_pc'[t] = "done") =>
                  /\ hb_pc[t] = "wait"
                  /\ hb_chan[t] > 0 \/ ~tx_live[t]]_vars

\* C32: the heartbeat loop sends a heartbeat immediately when started, waits
\* (lease_millis * 2) / 3 after a heartbeat that succeeded and lease / 2
\* after one that failed, and for every positive lease the wait after a
\* failure is not longer than the wait after a success.
C32_FailureWaitNotLonger ==
    \A t \in Tasks :
        (hb_pc[t] = "wait" /\ hb_resp[t] = "Err") => hb_wait[t] <= HeartbeatInterval

C32_Witness ==
    \E t \in Tasks :
        /\ hb_pc[t] = "wait" /\ hb_resp[t] = "Err"
        /\ meta_client_lease = FromMillis(1)
        /\ hb_wait[t] > HeartbeatInterval
\* ---------------------------------------------------------------- C33
\* C33: each heartbeat carries the ShardInfo of exactly the shards that are
\* in the shard set when the tick starts: a shard that open_shard has
\* inserted is in every heartbeat that starts afterwards, a shard that
\* close_shard has removed is in none that starts afterwards.
C33_HeartbeatCarriesShardSet ==
    [][\A t \in Tasks :
          (hb_pc[t] = "top" /\ hb_pc'[t] = "rpc") =>
              /\ \A id \in DOMAIN shard_set :
                    [id |-> id, version |-> shard_set[id].version] \in hb_sent'[t]
              /\ \A info \in hb_sent'[t] :
                    /\ info.id \in DOMAIN shard_set
                    /\ info.version = shard_set[info.id].version]_vars

C33_Witness ==
    \E t \in Tasks :
        /\ hb_pc[t] = "rpc" /\ hb_resp[t] # "none"
        /\ cs_ret.status = "ok" /\ cs_ret.id \notin DOMAIN shard_set
        /\ DOMAIN shard_set # {}
        /\ hb_sent[t] = ListShards
\* ---------------------------------------------------------------- C34
\* The table ids of the batch the output was computed from.
SplitInput == BatchTableIds(log_entry_buf)
IsRun(ids, id, r) ==
    /\ 0 <= r.start /\ r.start < r.end /\ r.end <= Len(ids)
    /\ \A i \in (r.start + 1)..r.end : ids[i] = id
    /\ r.start = 0 \/ ids[r.start] # id
    /\ r.end = Len(ids) \/ ids[r.end + 1] # id

\* C34: split_log_batch_by_table emits exactly one TableBatch per distinct
\* table_id of the batch; its ranges are non-empty, pairwise disjoint, in
\* ascending index order, and each is a maximal run of consecutive entries
\* with that table_id, every entry being in a range of its table. The empty
\* batch gives an empty output, table ids 1,1,2,2,2,3,3,3,3,1,1 give
\* {1:[0..2, 9..11], 2:[2..5], 3:[5..9]}, and nothing of an earlier call is
\* left in the output vector.
C34_SplitByTable ==
    LET ids == SplitInput IN
    /\ { b.table_id : b \in table_batches } = Range(ids)
    /\ Cardinality(table_batches) = Cardinality(Range(ids))
    /\ \A b \in table_batches :
          /\ Len(b.ranges) > 0
          /\ \A k \in 1..Len(b.ranges) : IsRun(ids, b.table_id, b.ranges[k])
          /\ \A k \in 1..(Len(b.ranges) - 1) : b.ranges[k].end < b.ranges[k + 1].start
    /\ \A i \in 1..Len(ids) :
          \E b \in table_batches : \E k \in 1..Len(b.ranges) :
              /\ b.table_id = ids[i]
              /\ b.ranges[k].start < i /\ i <= b.ranges[k].end
    /\ ids = << >> => table_batches = {}
    /\ ids = ExampleIds =>
          table_batches =
              { [table_id |-> 1, ranges |-> << [start |-> 0, end |-> 2],
                                               [start |-> 9, end |-> 11] >>],
                [table_id |-> 2, ranges |-> << [start |-> 2, end |-> 5] >>],
                [table_id |-> 3, ranges |-> << [start |-> 5, end |-> 9] >>] }

C34_Witness ==
    /\ SplitInput = ExampleIds
    /\ Cardinality(table_batches) = 3
    /\ \E b \in table_batches : b.table_id = 1 /\ Len(b.ranges) = 2
\* ---------------------------------------------------------------- C35
Returned == run_state \in { "ok" } \cup HardErrors

\* C35: for a finite log, replay terminates in both strategies: a run that
\* has started returns, and when it has returned no serial executor is held
\* by replay, provided a live writer that holds an executor lets it go.
C35_ReplayTerminates ==
    /\ (run_state = "running") ~>
          (Returned /\ \A t \in Tables : serial_exec[t] # "replay")
    /\ [](Returned => \A t \in Tables : serial_exec[t] # "replay")
    /\ [][/\ \A t \in Tables :
                (/\ mode = "TableBased" /\ task_pc[t] = "pull"
                 /\ task_pc'[t] # "pull"
                 /\ NextLogEntries(TableLog(t, read_start[t]), cursor[t],
                                   batch_size) = << >>) =>
                    task_pc'[t] = "done" /\ serial_exec'[t] = "free"
          /\ (/\ mode = "RegionBased" /\ rb_pc = "pull" /\ rb_pc' # "pull"
              /\ NextLogEntries(RegionLog, cursor[NoTable], batch_size) = << >>) =>
                    rb_pc' = "done" /\ Returned']_vars

C35_Witness ==
    /\ run_state = "ok" /\ live = MaxLive
    /\ \A t \in Tables : serial_exec[t] = "free" /\ replayed[t] # << >>
\* ---------------------------------------------------------------- C36
\* C36: for every table flushed_sequence <= last_sequence in every state
\* during and after replay, also when a flush that replay scheduled
\* completes while later entries are still being applied.
C36_FlushedAtMostLast ==
    \A t \in Tables : flushed_sequence[t] <= last_sequence[t]
\* What holds: flushed_sequence is above last_sequence only while the round
\* that inserted the entry is between schedule_flush and set_last_sequence.
C36_FlushedAtMostLastAfterSetLast ==
    \A t \in Tables :
        task_pc[t] # "scheduled" => flushed_sequence[t] <= last_sequence[t]
\* ---------------------------------------------------------------- C37
\* A step in which the fetch_nodes call of caller c returns.
FnReturns(c) == fn_pc[c] # "idle" /\ fn_pc'[c] = "idle"

\* C37: fetch_nodes returns ClusterNodesNotFound exactly when, the fetched
\* topology not having been accepted by the monotonic-version rule, the
\* cache holds no topology; the cache is then left as it is; and a failure
\* of the coordinator is returned as MetaClientFailure, the cache unchanged.
C37_NotFoundOnlyWithoutCache ==
    [][\A c \in Callers :
          /\ (FnReturns(c) /\ fn_ret'[c].status = "ClusterNodesNotFound") =>
                /\ fn_pc[c] = "reread"
                /\ topology.nodes = NoNodeList
                /\ ~(fetched[c].version > topology.version)
                /\ topology' = topology
          /\ (FnReturns(c) /\ fn_pc[c] = "reread" /\ topology.nodes = NoNodeList) =>
                fn_ret'[c] = ErrNodes("ClusterNodesNotFound")
          /\ (fn_pc[c] = "update" /\ fn_pc'[c] = "reread") =>
                ~(fetched[c].version > topology.version) /\ topology' = topology
          /\ (FnReturns(c) /\ fn_pc[c] = "get_nodes") =>
                /\ fn_ret'[c] = ErrNodes("MetaClientFailure")
                /\ topology' = topology
          /\ (FnReturns(c) /\ fn_ret'[c].status = "MetaClientFailure") =>
                fn_pc[c] = "get_nodes"]_vars

C37_Witness ==
    /\ fn_ret[1] = ErrNodes("ClusterNodesNotFound") /\ fn_pc[1] = "idle"
    /\ fetched[1].version = 0
    /\ topology.nodes = NoNodeList
    /\ fn_ret[2] = ErrNodes("MetaClientFailure")
\* ---------------------------------------------------------------- C38
\* C38: under any interleaving of concurrent open_shard calls for one shard
\* id with different versions, the version of the shard the shard set holds
\* for that id never decreases: a call that passed the version check before
\* another call inserted a newer version does not put an older shard over it.
C38_StoredVersionNeverDecreases ==
    [][\A id \in DOMAIN shard_set \cap DOMAIN shard_set' :
          shard_set'[id].version >= shard_set[id].version]_vars
\* ---------------------------------------------------------------- C39
\* The tables whose task of the batch is inside replay_table_log_entries.
RegionApplying ==
    { t \in Tables : mode = "RegionBased" /\ task_pc[t] \in { "apply", "scheduled" } }

\* C39: in region-based replay every per-table task of a batch takes the one
\* mutex around the map of serial-executor contexts and holds it for its
\* whole apply, so at most one table of the shard is having entries applied
\* at any moment, although several tasks are in flight.
C39_OneTableAppliesAtATime ==
    /\ [](/\ Cardinality(RegionApplying) <= 1
          /\ \A t \in RegionApplying : ctx_mutex = t
          /\ (mode = "RegionBased" /\ ctx_mutex # NoTable) => ctx_mutex \in RegionApplying)
    /\ [][\A t \in Tables :
            (/\ mode = "RegionBased"
             /\ \/ memtable'[t] # memtable[t] /\ Len(memtable'[t]) >= Len(memtable[t])
                \/ last_sequence'[t] # last_sequence[t]
                \/ replayed'[t] # replayed[t] /\ replayed'[t] # << >>)
            => ctx_mutex = t]_vars

C39_Witness ==
    /\ mode = "RegionBased"
    /\ task_pc[1] = "wait" /\ task_pc[2] = "apply" /\ ctx_mutex = 2
    /\ replayed[2] # << >> /\ Len(buf[2]) > 0
    /\ InFlightTasks = Tables
\* ---------------------------------------------------------------- C40
Running(t) == hb_pc[t] \in { "top", "rpc", "wait" }

\* C40: a start() while a heartbeat loop is running drops the Sender of the
\* earlier loop; that loop ends at its next wait, so that eventually the
\* only loop that can be running is the one started last; and the stop()
\* that follows signals and awaits the loop started last, and no other.
C40_RestartLeavesOneLoop ==
    /\ [][\A t \in Tasks :
            (nstarted' # nstarted /\ stop_heartbeat_tx = t) =>
                ~tx_live'[t] /\ t \in detached']_vars
    /\ [](\A t \in Tasks : tx_live[t] => t = nstarted)
    /\ [][\A t \in Tasks :
            (hb_pc[t] = "wait" /\ ~tx_live[t] /\ hb_pc'[t] # "wait") =>
                hb_pc'[t] = "done"]_vars
    /\ \A t \in Tasks : (Running(t) /\ t # nstarted) ~> (hb_pc[t] = "done")
    /\ [](stop_pc = "send" => stop_tx = nstarted)
    /\ [](stop_pc = "await" => stop_handle = nstarted)
    /\ [][\A t \in Tasks :
            (hb_chan'[t] > hb_chan[t] \/ (stop_handle' = t /\ stop_handle # t)) =>
                t = nstarted]_vars

C40_Witness ==
    /\ nstarted = 2 /\ 1 \in detached
    /\ hb_pc[1] = "done" /\ hb_resp[1] # "none"
    /\ stop_pc = "await" /\ stop_handle = 2 /\ hb_chan[2] = 1 /\ hb_chan[1] = 0
====
